---- MODULE Spec2Model ----
(***************************************************************************)
(* A model of sos vmcore-report: the emitter registry and its execution    *)
(* engine (emitters/registry.py) and the plugin selection of the report    *)
(* component (vmcore_report/__init__.py).                                  *)
(*                                                                         *)
(* Strings that the code builds (paths, texts) are sequences of string     *)
(* fragments; a Python dict of keys is a function from key names.          *)
(***************************************************************************)
EXTENDS Integers, Sequences, FiniteSets, TLC

VARIABLES
    \* ---- run_scope (emitters/registry.py) ----
    scope,        \* the scope argument of run_scope
    pkgModules,   \* the submodules of the scope's package, in iteration order
    sess,         \* the drgn program (what its reads and helpers answer)
    emitters,     \* list_emitters(scope), once computed
    ei,           \* number of emitters the for loop has finished
    keys,         \* the key-sets the current enumerator yields
    ki,           \* number of key-sets of the current enumerator consumed
    outputs,      \* the outputs list of run_scope
    calls,        \* history: every invocation of an emitter body and its outcome
    rpc,          \* position in run_scope
    \* ---- _discover_plugins (vmcore_report/__init__.py) ----
    opts,         \* self.opts: only_plugins, plugins, skip_plugins, enable_plugins, experimental
    modules,      \* the module names after the retired ones are removed
    mi,           \* number of modules the for loop has finished
    cls,          \* the loop variable cls (the class last imported)
    discovered,   \* the list discovered
    classes,      \* history: the class of each entry of discovered
    loaded,       \* self._loaded_plugins
    skipped,      \* self._skipped_plugins
    warnings,     \* the warnings given to soslog
    dpc,          \* position in _discover_plugins
    \* ---- execute and _run_plugins (vmcore_report/__init__.py) ----
    cmdline,      \* self.opts: vmcore, vmlinux, debuginfo_dirs, debug, build
    environ,      \* os.environ: whether SOS_TEST_LOGS is 'keep'
    xpc,          \* position in execute
    archive,      \* self.archive and self._archive_initialized
    drgn_prog,    \* self._drgn_prog
    pidx,         \* number of plugins the for loop of _run_plugins has finished
    hooks,        \* history: every call of a plugin constructor or hook
    last,         \* the last of these calls and its outcome
    records,      \* the Output Records in the working directory
    runlog,       \* what execute and its phases log or print
    cleaned,      \* self.cleanup() was called
    package,      \* what _finalize has left in the system temporary directory
    term          \* how the run has ended

scopeVars == <<scope, pkgModules, sess, emitters, ei, keys, ki, outputs, calls, rpc>>
selVars == <<opts, modules, mi, cls, discovered, classes, loaded, skipped, warnings, dpc>>
runVars == <<cmdline, environ, xpc, archive, drgn_prog, pidx, hooks, last, records,
             runlog, cleaned, package, term>>
vars == <<scopeVars, selVars, runVars>>

(***************************************************************************)
(* Bounds of the model.                                                    *)
(***************************************************************************)
MaxModules == 2       \* submodules in a scope's package
MaxOptNames == 3      \* names given in the plugin-name options, all together

(***************************************************************************)
(* Helpers on sequences and numbers.                                       *)
(***************************************************************************)
Range(s) == {s[i] : i \in DOMAIN s}

RECURSIVE Flatten(_)
Flatten(ss) == IF ss = <<>> THEN <<>> ELSE Head(ss) \o Flatten(Tail(ss))

SetMin(S) == CHOOSE x \in S : \A y \in S : x <= y

\* Python's sorted() of a set of integers
RECURSIVE Sorted(_)
Sorted(S) == IF S = {} THEN <<>>
             ELSE LET m == SetMin(S) IN <<m>> \o Sorted(S \ {m})

DigitChar == <<"0", "1", "2", "3", "4", "5", "6", "7", "8", "9">>

\* Python's str() of a non-negative integer, one fragment per digit
RECURSIVE IntStr(_)
IntStr(n) == IF n < 10 THEN <<DigitChar[n + 1]>>
             ELSE IntStr(n \div 10) \o <<DigitChar[(n % 10) + 1]>>

(***************************************************************************)
(* The drgn program, as far as the enumerators read it. A value read from  *)
(* the program is [ok, v]: ok = FALSE is a read or conversion that raises. *)
(* An iteration is a list of items and failAfter: -1 when the helper       *)
(* finishes, n >= 0 when it raises after n items.                          *)
(***************************************************************************)
Val(v) == [ok |-> TRUE, v |-> v]
Bad == [ok |-> FALSE, v |-> 0]

Consumed(items, failAfter) ==
    IF failAfter >= 0 /\ failAfter <= Len(items) THEN SubSeq(items, 1, failAfter)
    ELSE items

Raises(items, failAfter) == failAfter >= 0 /\ failAfter <= Len(items)

KeySet(name, v) == (name :> v)

KeySets(name, vs) == [i \in DOMAIN vs |-> KeySet(name, vs[i])]

PidMaxDefault == 1000000

\* enumerate_pids, strategy 3: the init_task list traversal
PidsFromInitTask(s) ==
    IF ~s.initTaskOk THEN <<>>
    ELSE LET bad == {i \in DOMAIN s.taskList : ~s.taskList[i].ok}
             n == IF bad = {} THEN Len(s.taskList) ELSE SetMin(bad) - 1
             seen == {p \in {s.taskList[i].v : i \in 1..n} : p > 0}
         IN Sorted(seen)

\* enumerate_pids, strategy 2: for_each_task
PidsFromTasks(s) ==
    IF ~s.taskImport \/ Raises(s.tasks, s.tasksFailAfter) THEN PidsFromInitTask(s)
    ELSE LET pset == {s.tasks[i].v : i \in {j \in DOMAIN s.tasks : s.tasks[j].ok}}
         IN Sorted({p \in pset : p > 0})

\* a mutant of lines 144 and 163: the pids are yielded as the helper gave them
EnumeratePidsUnsorted(s) ==
    LET pid_max == IF s.pidMax.ok THEN s.pidMax.v ELSE PidMaxDefault
        ok == SelectSeq(s.forEachPid, LAMBDA it : it.ok /\ 0 < it.v /\ it.v <= pid_max)
    IN IF ~s.pidImport \/ Raises(s.forEachPid, s.forEachPidFailAfter) \/ ok = <<>>
       THEN KeySets("pid", PidsFromTasks(s))
       ELSE KeySets("pid", [i \in DOMAIN ok |-> ok[i].v])

\* a mutant of line 139: the candidates are not tested against pid_max
EnumeratePidsUnbounded(s) ==
    LET cands == {s.forEachPid[i].v : i \in {j \in DOMAIN s.forEachPid : s.forEachPid[j].ok}}
        pset == {c \in cands : 0 < c}
    IN IF ~s.pidImport \/ Raises(s.forEachPid, s.forEachPidFailAfter) \/ pset = {}
       THEN KeySets("pid", PidsFromTasks(s))
       ELSE KeySets("pid", Sorted(pset))

\* enumerate_pids: strategy 1 (for_each_pid), then the fallbacks
EnumeratePids(s) ==
    LET pid_max == IF s.pidMax.ok THEN s.pidMax.v ELSE PidMaxDefault
        cands == {s.forEachPid[i].v : i \in {j \in DOMAIN s.forEachPid : s.forEachPid[j].ok}}
        pset == {c \in cands : 0 < c /\ c <= pid_max}
    IN IF ~s.pidImport \/ Raises(s.forEachPid, s.forEachPidFailAfter) \/ pset = {}
       THEN KeySets("pid", PidsFromTasks(s))
       ELSE KeySets("pid", Sorted(pset))

\* _nr_cpu_ids: None is -1
NrCpuIds(s) == IF s.nrCpuIds.ok THEN s.nrCpuIds.v ELSE -1

\* enumerate_cpus: cpu_online_mask first, its yields are kept when the
\* iteration raises part-way, then nr_cpu_ids or the single cpu 0
EnumerateCpus(s) ==
    LET count == NrCpuIds(s)
        fallback == IF count > 0 THEN [i \in 1..count |-> i - 1] ELSE <<0>>
    IN IF ~s.cpumaskImport \/ ~s.cpuMaskOk THEN KeySets("cpu", fallback)
       ELSE IF Raises(s.cpuMask, s.cpuMaskFailAfter)
            THEN KeySets("cpu", Consumed(s.cpuMask, s.cpuMaskFailAfter) \o fallback)
            ELSE KeySets("cpu", s.cpuMask)

\* _ENUMS
EnumNames == {"enumerate_pids", "enumerate_cpus"}

EnumCall(name, s) == IF name = "enumerate_pids" THEN EnumeratePids(s) ELSE EnumerateCpus(s)

(***************************************************************************)
(* Emitters. A path or path template is a list of parts: a literal         *)
(* fragment, or a placeholder {name}.                                      *)
(***************************************************************************)
Lit(str) == [t |-> "lit", s |-> str]
Ph(name) == [t |-> "ph", s |-> name]

\* the dataclass Emitter; enumerator "None" is None
Emitter(path, enumerator, func) == [path |-> path, enumerator |-> enumerator, func |-> func]

\* the string em.path
RawPath(path) ==
    Flatten([i \in DOMAIN path |->
                IF path[i].t = "lit" THEN <<path[i].s>> ELSE <<"{", path[i].s, "}">>])

\* "{" in em.path
HasBrace(path) == "{" \in Range(RawPath(path))

\* .replace("{", "_").replace("}", "_")
ReplaceBraces(raw) == [i \in DOMAIN raw |-> IF raw[i] \in {"{", "}"} THEN "_" ELSE raw[i]]

\* template.format(**keys) raises KeyError when a placeholder has no key
FormatFails(path, ks) == \E i \in DOMAIN path : path[i].t = "ph" /\ path[i].s \notin DOMAIN ks

FormatPath(path, ks) ==
    Flatten([i \in DOMAIN path |->
                IF path[i].t = "lit" THEN <<path[i].s>> ELSE IntStr(ks[path[i].s])])

\* a mutant of lines 236-238: the template is returned as it is
SafeFormatPathRaw(path, ks) ==
    IF FormatFails(path, ks) THEN RawPath(path) ELSE FormatPath(path, ks)

\* _safe_format_path
SafeFormatPath(path, ks) ==
    IF FormatFails(path, ks) THEN ReplaceBraces(RawPath(path)) ELSE FormatPath(path, ks)

StubPrefix == "# vmcore-report: stub"

\* a mutant of _format_stub: the sentinel prefix is left out
FormatStubBare(reason) == reason \o <<"\n">>

\* _format_stub
FormatStub(reason) ==
    <<StubPrefix, " (not reconstructable from vmcore) - ">> \o reason \o <<"\n">>

(***************************************************************************)
(* What one invocation of an emitter body does: it returns a string, it    *)
(* returns an object that is no string (an integer), or it raises.         *)
(***************************************************************************)
RetStr(text) == [kind |-> "str", text |-> text, n |-> 0, exc |-> "", msg |-> ""]
RetObj(n) == [kind |-> "obj", text |-> <<>>, n |-> n, exc |-> "", msg |-> ""]
Raise(exc, msg) == [kind |-> "raise", text |-> <<>>, n |-> 0, exc |-> exc, msg |-> msg]

BodyOutcomes ==
    {RetStr(<<"data\n">>), RetStr(<<StubPrefix, " (task not found)\n">>), RetObj(42),
     Raise("Exception", "boom"), Raise("KeyboardInterrupt", "")}

\* "except Exception" catches every exception but those outside Exception
CaughtByExcept(o) == o.kind = "raise" /\ o.exc # "KeyboardInterrupt"

Propagates(o) == o.kind = "raise" /\ ~CaughtByExcept(o)

\* if not isinstance(body, str): body = str(body)
BodyText(o) == IF o.kind = "str" THEN o.text ELSE IntStr(o.n)

\* An entry of outputs: the tuple (path, text); em, the index of the emitter
\* that the entry was appended for, is history.
Output(path, text, e) == [path |-> path, text |-> text, em |-> e]

\* run_scope, lines 253-259: the enumerator is not in _ENUMS
MissingEnumOutput(em, e) ==
    Output(ReplaceBraces(RawPath(em.path)),
           FormatStub(<<"enumerator '", em.enumerator, "' not found">>), e)

\* a mutant of the key-set branch: a failing key is recorded at the sanitized
\* template, as the emitter's handler does, and not at its rendered path
KeyOutputAtTemplate(em, e, ks, o) ==
    Output(IF CaughtByExcept(o) THEN ReplaceBraces(RawPath(em.path))
           ELSE SafeFormatPath(em.path, ks),
           IF CaughtByExcept(o) THEN FormatStub(<<"emitter error: ", o.msg>>)
           ELSE BodyText(o),
           e)

\* run_scope, lines 261-270: one key-set of a templated emitter
KeyOutput(em, e, ks, o) ==
    Output(SafeFormatPath(em.path, ks),
           IF CaughtByExcept(o) THEN FormatStub(<<"emitter error: ", o.msg>>)
           ELSE BodyText(o),
           e)

\* run_scope, lines 276-281: the handler of the emitter's try
FailureOutput(em, e, o) ==
    Output(IF ~HasBrace(em.path) THEN RawPath(em.path)
           ELSE ReplaceBraces(RawPath(em.path)),
           FormatStub(<<"emitter failure: ", o.msg>>), e)

\* run_scope, lines 272-281: an emitter with no enumerator
FixedOutput(em, e, o) ==
    IF CaughtByExcept(o) THEN FailureOutput(em, e, o)
    ELSE Output(RawPath(em.path), BodyText(o), e)

\* a mutant of lines 253-259: the missing enumerator is logged and no stub
\* is appended
AfterMissingEnumLosing(outs, em, e) == outs

\* outputs.append(...) in each of the three branches of the loop body
AfterMissingEnum(outs, em, e) == Append(outs, MissingEnumOutput(em, e))

\* a mutant of lines 264-270: the stub of a failing key goes to the front
AfterKeyStubFirst(outs, em, e, ks, o) ==
    IF CaughtByExcept(o) THEN <<KeyOutput(em, e, ks, o)>> \o outs
    ELSE Append(outs, KeyOutput(em, e, ks, o))

AfterKey(outs, em, e, ks, o) == Append(outs, KeyOutput(em, e, ks, o))

\* a mutant of the emitter's handler: the failure is logged and no stub appended
AfterFixedLosing(outs, em, e, o) ==
    IF CaughtByExcept(o) THEN outs ELSE Append(outs, FixedOutput(em, e, o))

AfterFixed(outs, em, e, o) == Append(outs, FixedOutput(em, e, o))

(***************************************************************************)
(* The packages of the scopes: the modules that a scope's package can      *)
(* hold. A module is its name, whether its import succeeds, and the        *)
(* emitters among its top-level names, in definition order.                *)
(***************************************************************************)
Module(name, ok, ems) == [name |-> name, ok |-> ok, vars |-> ems]

ValidScopes == {"proc", "sys", "commands"}

ProcModules ==
    {Module("cmdline", TRUE,
            <<Emitter(<<Lit("proc/cmdline")>>, "None", "emit_proc_cmdline")>>),
     Module("pid_files", TRUE,
            <<Emitter(<<Lit("proc/"), Ph("pid"), Lit("/status")>>, "enumerate_pids",
                      "produce_status")>>),
     \* "from .cmdline import emit_proc_cmdline" binds the function of the
     \* module cmdline in this module too
     Module("boot", TRUE,
            <<Emitter(<<Lit("proc/cmdline")>>, "None", "emit_proc_cmdline")>>),
     Module("slabinfo", FALSE,
            <<Emitter(<<Lit("proc/slabinfo")>>, "None", "emit_proc_slabinfo")>>),
     Module("softirqs", TRUE,
            <<Emitter(<<Lit("proc/softirqs.cpu"), Ph("cpu")>>, "enumerate_cpus",
                      "produce_softirqs")>>)}

SysModules ==
    {Module("cpu_masks", TRUE,
            <<Emitter(<<Lit("sys/devices/system/cpu/online")>>, "None", "emit_cpu_online")>>),
     Module("cpu_topology", TRUE,
            <<Emitter(<<Lit("sys/devices/system/cpu/cpu"), Ph("cpu"), Lit("/online")>>,
                      "enumerate_cpus", "produce_cpu_online")>>),
     Module("irqs", TRUE,
            <<Emitter(<<Lit("sys/kernel/irq/"), Ph("irq"), Lit("/name")>>,
                      "enumerate_irqs", "produce_irq_name")>>),
     Module("sched", FALSE,
            <<Emitter(<<Lit("sys/kernel/debug/sched/debug")>>, "None", "emit_sched_debug")>>)}

CommandsModules ==
    {Module("kernel", TRUE,
            <<Emitter(<<Lit("sos_commands/kernel/uname_-a")>>, "None", "emit_uname_a"),
              Emitter(<<Lit("sos_commands/kernel/lsmod")>>, "None", "emit_lsmod")>>),
     Module("percpu", TRUE,
            <<Emitter(<<Lit("sos_commands/percpu/"), Ph("pid")>>, "enumerate_cpus",
                      "produce_percpu")>>),
     Module("braces", TRUE,
            <<Emitter(<<Lit("sos_commands/awk_"), Ph("print"), Lit("_version")>>, "None",
                      "emit_awk")>>),
     Module("process", TRUE,
            <<Emitter(<<Lit("sos_commands/process/ps_"), Ph("pid")>>, "enumerate_pids",
                      "produce_ps")>>)}

PackageModules(sc) ==
    IF sc = "proc" THEN ProcModules
    ELSE IF sc = "sys" THEN SysModules
    ELSE IF sc = "commands" THEN CommandsModules
    ELSE {}

\* the lists of at most n distinct modules of a package
ModuleLists(pkg, n) ==
    {l \in UNION {[1..k -> pkg] : k \in 0..n} :
        \A i, j \in DOMAIN l : i # j => l[i].name # l[j].name}

\* _iter_submodules, lines 61-65: what is logged for the modules that do not
\* import; the handler is a bare continue and the function has no logger
ImportWarnings(mods) == <<>>

\* a mutant of line 63: the first module that does not import ends the
\* iteration
RECURSIVE CollectEmittersUntilBroken(_)
CollectEmittersUntilBroken(mods) ==
    IF mods = <<>> \/ ~Head(mods).ok THEN <<>>
    ELSE Head(mods).vars \o CollectEmittersUntilBroken(Tail(mods))

\* _iter_submodules and _collect_emitters_from_module: the emitters of the
\* modules that import, module after module
RECURSIVE CollectEmitters(_)
CollectEmitters(mods) ==
    IF mods = <<>> THEN <<>>
    ELSE (IF Head(mods).ok THEN Head(mods).vars ELSE <<>>) \o CollectEmitters(Tail(mods))

(***************************************************************************)
(* The programs that run_scope is run on.                                  *)
(***************************************************************************)
HealthySession ==
    [cpumaskImport |-> TRUE, cpuMaskOk |-> TRUE, cpuMask |-> <<0, 1>>,
     cpuMaskFailAfter |-> -1, nrCpuIds |-> Val(2),
     pidImport |-> TRUE, pidMax |-> Val(4), forEachPid |-> <<Val(2), Val(1)>>,
     forEachPidFailAfter |-> -1,
     taskImport |-> TRUE, tasks |-> <<Val(1), Val(2)>>, tasksFailAfter |-> -1,
     initTaskOk |-> TRUE, taskList |-> <<Val(0), Val(1), Val(2)>>]

\* the mask iteration raises after one cpu; for_each_pid yields pointers
DegradedSession ==
    [HealthySession EXCEPT !.cpuMaskFailAfter = 1,
                           !.forEachPid = <<Val(2000000), Bad>>,
                           !.tasks = <<Val(0), Val(3), Bad, Val(3)>>]

\* every read and helper fails
BrokenSession ==
    [HealthySession EXCEPT !.cpumaskImport = FALSE, !.nrCpuIds = Bad,
                           !.pidImport = FALSE, !.taskImport = FALSE,
                           !.initTaskOk = FALSE]

ScopeSessions == {HealthySession, DegradedSession, BrokenSession}

(***************************************************************************)
(* run_scope                                                               *)
(***************************************************************************)
Call(e, k, o) == [em |-> e, k |-> k, o |-> o]

EnterRunScope ==
    /\ scope \in ValidScopes \cup {"bogus"}
    /\ pkgModules \in ModuleLists(PackageModules(scope), MaxModules)
    /\ sess \in ScopeSessions
    /\ emitters = <<>>
    /\ ei = 0
    /\ keys = <<>>
    /\ ki = 0
    /\ outputs = <<>>
    /\ calls = <<>>
    /\ rpc = "start"

\* list_emitters(scope): ValueError on a scope that is none of the three
ListEmitters ==
    /\ rpc = "start"
    /\ IF scope \in ValidScopes
       THEN /\ emitters' = CollectEmitters(pkgModules)
            /\ warnings' = warnings \o ImportWarnings(pkgModules)
            /\ rpc' = "loop"
       ELSE emitters' = emitters /\ warnings' = warnings /\ rpc' = "raised"
    /\ UNCHANGED <<scope, pkgModules, sess, ei, keys, ki, outputs, calls>>
    /\ UNCHANGED <<opts, modules, mi, cls, discovered, classes, loaded, skipped, dpc>>
    /\ UNCHANGED runVars

\* an emitter with no enumerator: the body is invoked once
RunFixed ==
    /\ rpc = "loop"
    /\ ei < Len(emitters)
    /\ LET em == emitters[ei + 1] IN
        /\ em.enumerator = "None"
        /\ \E o \in BodyOutcomes :
            /\ calls' = Append(calls, Call(ei + 1, 0, o))
            /\ IF Propagates(o)
               THEN rpc' = "raised" /\ UNCHANGED <<outputs, ei>>
               ELSE /\ outputs' = AfterFixed(outputs, em, ei + 1, o)
                    /\ ei' = ei + 1
                    /\ rpc' = "loop"
    /\ UNCHANGED <<scope, pkgModules, sess, emitters, keys, ki>>
    /\ UNCHANGED <<selVars, runVars>>

\* an emitter whose enumerator is not in _ENUMS
MissingEnumerator ==
    /\ rpc = "loop"
    /\ ei < Len(emitters)
    /\ LET em == emitters[ei + 1] IN
        /\ em.enumerator # "None"
        /\ em.enumerator \notin EnumNames
        /\ outputs' = AfterMissingEnum(outputs, em, ei + 1)
    /\ ei' = ei + 1
    /\ UNCHANGED <<scope, pkgModules, sess, emitters, keys, ki, calls, rpc>>
    /\ UNCHANGED <<selVars, runVars>>

\* a mutant of line 260: the key-sets come in an order of their own
StartEnumerationUnordered ==
    /\ rpc = "loop"
    /\ ei < Len(emitters)
    /\ LET em == emitters[ei + 1] IN
        /\ em.enumerator \in EnumNames
        /\ LET ks == EnumCall(em.enumerator, sess) IN
           keys' \in {q \in [DOMAIN ks -> Range(ks)] : Range(q) = Range(ks)}
    /\ ki' = 0
    /\ IF keys' = <<>> THEN ei' = ei + 1 /\ rpc' = "loop"
       ELSE ei' = ei /\ rpc' = "keys"
    /\ UNCHANGED <<scope, pkgModules, sess, emitters, outputs, calls>>
    /\ UNCHANGED <<selVars, runVars>>

\* an emitter with an enumerator of _ENUMS: the enumerator is called
StartEnumeration ==
    /\ rpc = "loop"
    /\ ei < Len(emitters)
    /\ LET em == emitters[ei + 1] IN
        /\ em.enumerator \in EnumNames
        /\ keys' = EnumCall(em.enumerator, sess)
    /\ ki' = 0
    /\ IF keys' = <<>> THEN ei' = ei + 1 /\ rpc' = "loop"
       ELSE ei' = ei /\ rpc' = "keys"
    /\ UNCHANGED <<scope, pkgModules, sess, emitters, outputs, calls>>
    /\ UNCHANGED <<selVars, runVars>>

\* the next key-set of the enumerator: the body is invoked with it
RunKey ==
    /\ rpc = "keys"
    /\ ki < Len(keys)
    /\ LET em == emitters[ei + 1] IN
       \E o \in BodyOutcomes :
            /\ calls' = Append(calls, Call(ei + 1, ki + 1, o))
            /\ IF Propagates(o)
               THEN rpc' = "raised" /\ UNCHANGED <<outputs, ei, ki>>
               ELSE /\ outputs' = AfterKey(outputs, em, ei + 1, keys[ki + 1], o)
                    /\ ki' = ki + 1
                    /\ IF ki + 1 = Len(keys) THEN ei' = ei + 1 /\ rpc' = "loop"
                       ELSE ei' = ei /\ rpc' = "keys"
    /\ UNCHANGED <<scope, pkgModules, sess, emitters, keys>>
    /\ UNCHANGED <<selVars, runVars>>

\* return outputs
ReturnOutputs ==
    /\ rpc = "loop"
    /\ ei = Len(emitters)
    /\ rpc' = "returned"
    /\ UNCHANGED <<scope, pkgModules, sess, emitters, ei, keys, ki, outputs, calls>>
    /\ UNCHANGED <<selVars, runVars>>

NextScope ==
    \/ ListEmitters
    \/ RunFixed
    \/ MissingEnumerator
    \/ StartEnumeration
    \/ RunKey
    \/ ReturnOutputs

(***************************************************************************)
(* run_scope as a function of the emitters, the program and the outcome of *)
(* every body invocation, O[<<e, k>>] for key-set k of emitter e (k = 0    *)
(* for an emitter with no enumerator), none of which propagates.           *)
(***************************************************************************)
RECURSIVE RunKeys(_, _, _, _, _, _)
RunKeys(outs, em, e, kss, k, O) ==
    IF k > Len(kss) THEN outs
    ELSE RunKeys(AfterKey(outs, em, e, kss[k], O[<<e, k>>]), em, e, kss, k + 1, O)

RunEmitter(outs, em, e, s, O) ==
    IF em.enumerator = "None" THEN AfterFixed(outs, em, e, O[<<e, 0>>])
    ELSE IF em.enumerator \notin EnumNames THEN AfterMissingEnum(outs, em, e)
    ELSE RunKeys(outs, em, e, EnumCall(em.enumerator, s), 1, O)

RECURSIVE RunEmitters(_, _, _, _, _)
RunEmitters(outs, ems, e, s, O) ==
    IF e > Len(ems) THEN outs
    ELSE RunEmitters(RunEmitter(outs, ems[e], e, s, O), ems, e + 1, s, O)

RunScope(ems, s, O) == RunEmitters(<<>>, ems, 1, s, O)

(***************************************************************************)
(* _discover_plugins. A plugin name given on the command line is a list of *)
(* its segments between dots: "plugin_c.timeout" is <<"plugin_c",          *)
(* "timeout">>. Each option holds a set of them: the code turns the lists  *)
(* into sets at once.                                                      *)
(***************************************************************************)
\* helper.get_modules(): the modules of sos.vmcore_report.plugins
PluginNamespace == <<"plugin_a", "plugin_b", "plugin_c", "sched_debug">>

RetiredModules == {"sched_debug"}

\* the names that the options can give
RawNames ==
    {<<"plugin_a">>, <<"plugin_b">>, <<"plugin_c", "timeout">>, <<"nosuch">>,
     <<"sched_debug">>}

OptionNames == {"only_plugins", "plugins", "skip_plugins", "enable_plugins"}

\* the options naming at most n plugins in all
OptionSets(n) ==
    {[o \in OptionNames |-> {p[1] : p \in {q \in P : q[2] = o}}] :
        P \in {Q \in SUBSET (RawNames \X OptionNames) : Cardinality(Q) <= n}}

\* p.split(".")[0]
SplitDot0(raw) == raw[1]

\* set([p.split(".")[0] for p in (names or [])])
NameSet(raws) == {SplitDot0(r) : r \in raws}

\* a mutant of lines 227-230: the legacy --plugins names are not merged
OnlySetNoLegacy(o) == NameSet(o.only_plugins)

OnlySet(o) == NameSet(o.only_plugins) \cup NameSet(o.plugins)
SkipSet(o) == NameSet(o.skip_plugins)
EnableSet(o) == NameSet(o.enable_plugins)

\* a DrgnPluginBase subclass as the selection reads it
PluginClass(name, experimental, default_enabled) ==
    [name |-> name, experimental |-> experimental, default_enabled |-> default_enabled]

NoClass == PluginClass("", FALSE, TRUE)

\* the classes that import_module can find in a module
ClassesOf(mod_name) == {PluginClass(mod_name, x, d) : x, d \in BOOLEAN}

\* a mutant of the filters: the skip filter comes before the only filter
SelectionOutcomeSkipFirst(c, o) ==
    IF c.name \in SkipSet(o) THEN "skipped"
    ELSE IF OnlySet(o) # {} /\ c.name \notin OnlySet(o) THEN "not specified"
    ELSE IF /\ c.experimental /\ ~o.experimental
            /\ c.name \notin EnableSet(o) /\ c.name \notin OnlySet(o) THEN "experimental"
    ELSE IF /\ ~c.default_enabled
            /\ c.name \notin EnableSet(o) /\ c.name \notin OnlySet(o) THEN "optional"
    ELSE "selected"

\* a mutant of the filters: being named in only does not override the
\* experimental and optional gates
SelectionOutcomeOnlyNoOverride(c, o) ==
    IF OnlySet(o) # {} /\ c.name \notin OnlySet(o) THEN "not specified"
    ELSE IF c.name \in SkipSet(o) THEN "skipped"
    ELSE IF c.experimental /\ ~o.experimental /\ c.name \notin EnableSet(o)
         THEN "experimental"
    ELSE IF ~c.default_enabled /\ c.name \notin EnableSet(o) THEN "optional"
    ELSE "selected"

\* a mutant of the filters: being named in enable does not override the
\* optional gate
SelectionOutcomeEnableNoOverride(c, o) ==
    IF OnlySet(o) # {} /\ c.name \notin OnlySet(o) THEN "not specified"
    ELSE IF c.name \in SkipSet(o) THEN "skipped"
    ELSE IF /\ c.experimental /\ ~o.experimental
            /\ c.name \notin EnableSet(o) /\ c.name \notin OnlySet(o) THEN "experimental"
    ELSE IF ~c.default_enabled /\ c.name \notin OnlySet(o) THEN "optional"
    ELSE "selected"

\* a mutant of the filters: the experimental gate is left out
SelectionOutcomeNoExperimental(c, o) ==
    IF OnlySet(o) # {} /\ c.name \notin OnlySet(o) THEN "not specified"
    ELSE IF c.name \in SkipSet(o) THEN "skipped"
    ELSE IF /\ ~c.default_enabled
            /\ c.name \notin EnableSet(o) /\ c.name \notin OnlySet(o) THEN "optional"
    ELSE "selected"

\* lines 256-279: what the four filters make of the class cls
SelectionOutcome(c, o) ==
    IF OnlySet(o) # {} /\ c.name \notin OnlySet(o) THEN "not specified"
    ELSE IF c.name \in SkipSet(o) THEN "skipped"
    ELSE IF /\ c.experimental /\ ~o.experimental
            /\ c.name \notin EnableSet(o) /\ c.name \notin OnlySet(o) THEN "experimental"
    ELSE IF /\ ~c.default_enabled
            /\ c.name \notin EnableSet(o) /\ c.name \notin OnlySet(o) THEN "optional"
    ELSE "selected"

\* Python's order of the strings that occur as names
NameOrder == <<"nosuch", "plugin_a", "plugin_b", "plugin_c", "sched_debug">>

\* sorted() of a set of names
SortedNames(S) == SelectSeq(NameOrder, LAMBDA x : x \in S)

\* a mutant of line 282: the names of enable are not looked at
UnknownNamesNoEnable(o, found) == (OnlySet(o) \cup SkipSet(o)) \ Range(found)

\* line 282
UnknownNames(o, found) == (OnlySet(o) \cup SkipSet(o) \cup EnableSet(o)) \ Range(found)

Warning(kind, name) == [kind |-> kind, name |-> name]

EnterDiscoverPlugins ==
    /\ \E names \in OptionSets(MaxOptNames), x \in BOOLEAN :
        opts = [only_plugins |-> names["only_plugins"], plugins |-> names["plugins"],
                skip_plugins |-> names["skip_plugins"],
                enable_plugins |-> names["enable_plugins"], experimental |-> x]
    /\ modules = <<>>
    /\ mi = 0
    /\ cls = NoClass
    /\ discovered = <<>>
    /\ classes = <<>>
    /\ loaded = <<>>
    /\ skipped = <<>>
    /\ warnings = <<>>
    /\ dpc = "start"

\* a mutant of line 224: the retired modules are not filtered out
ListModulesKeepRetired ==
    /\ dpc = "start"
    /\ modules' = PluginNamespace
    /\ loaded' = <<>>
    /\ skipped' = <<>>
    /\ discovered' = <<>>
    /\ classes' = <<>>
    /\ mi' = 0
    /\ dpc' = "modules"
    /\ UNCHANGED <<opts, cls, warnings>>
    /\ UNCHANGED <<scopeVars, runVars>>

\* lines 217-240: the modules but the retired ones, the lists emptied
ListModules ==
    /\ dpc = "start"
    /\ modules' = SelectSeq(PluginNamespace, LAMBDA m : m \notin RetiredModules)
    /\ loaded' = <<>>
    /\ skipped' = <<>>
    /\ discovered' = <<>>
    /\ classes' = <<>>
    /\ mi' = 0
    /\ dpc' = "modules"
    /\ UNCHANGED <<opts, cls, warnings>>
    /\ UNCHANGED <<scopeVars, runVars>>

\* lines 244-248: the import of the module raises
ImportFails ==
    /\ dpc = "modules"
    /\ mi < Len(modules)
    /\ warnings' = Append(warnings, Warning("does not import", modules[mi + 1]))
    /\ mi' = mi + 1
    /\ UNCHANGED <<opts, modules, cls, discovered, classes, loaded, skipped, dpc>>
    /\ UNCHANGED <<scopeVars, runVars>>

\* lines 249-250: the module holds no plugin class
ImportEmpty ==
    /\ dpc = "modules"
    /\ mi < Len(modules)
    /\ mi' = mi + 1
    /\ UNCHANGED <<opts, modules, cls, discovered, classes, loaded, skipped, warnings, dpc>>
    /\ UNCHANGED <<scopeVars, runVars>>

\* lines 252-279: the module's class is selected or skipped
SelectPlugin ==
    /\ dpc = "modules"
    /\ mi < Len(modules)
    /\ \E c \in ClassesOf(modules[mi + 1]) :
        /\ cls' = c
        /\ discovered' = Append(discovered, c.name)
        /\ classes' = Append(classes, c)
        /\ LET outcome == SelectionOutcome(c, opts) IN
            IF outcome = "selected"
            THEN loaded' = Append(loaded, c) /\ skipped' = skipped
            ELSE skipped' = Append(skipped, <<c.name, outcome>>) /\ loaded' = loaded
    /\ mi' = mi + 1
    /\ UNCHANGED <<opts, modules, warnings, dpc>>
    /\ UNCHANGED <<scopeVars, runVars>>

\* lines 281-284: the unknown names are warned about, the method returns
WarnUnknown ==
    /\ dpc = "modules"
    /\ mi = Len(modules)
    /\ LET unknown == SortedNames(UnknownNames(opts, discovered)) IN
        warnings' = warnings \o [i \in DOMAIN unknown |-> Warning("not found", unknown[i])]
    /\ dpc' = "done"
    /\ UNCHANGED <<opts, modules, mi, cls, discovered, classes, loaded, skipped>>
    /\ UNCHANGED <<scopeVars, runVars>>

NextSelect ==
    \/ ListModules
    \/ ImportFails
    \/ ImportEmpty
    \/ SelectPlugin
    \/ WarnUnknown

(***************************************************************************)
(* execute: the phases of a run, and the handlers of its try statement.    *)
(* A path is a string; what os.path says of it is fixed by the catalogs    *)
(* below. An exception is its type and, for an OSError, its errno.         *)
(***************************************************************************)
\* line 20
fatal_fs_errors == {"ENOSPC", "EROFS"}

OSError(errno) == [type |-> "OSError", errno |-> errno]
Exception == [type |-> "Exception", errno |-> "none"]
KeyboardInterrupt == [type |-> "KeyboardInterrupt", errno |-> "none"]

\* the exceptions that the collaborators of a phase can raise
Errors == {Exception, KeyboardInterrupt, OSError("ENOSPC"), OSError("EROFS"),
           OSError("EACCES")}

IsFatalFs(e) == e.type = "OSError" /\ e.errno \in fatal_fs_errors

\* caught by an 'except Exception' clause (OSError is a subclass of it)
IsException(e) == e.type \in {"Exception", "OSError"}

\* how a call of a plugin's constructor or of one of its hooks ends
NoError == [type |-> "none", errno |-> "none"]
HookReturn(ret) == [ret |-> ret, exc |-> NoError]
HookRaise(e) == [ret |-> "raise", exc |-> e]
HookCall(plugin, hook) == [plugin |-> plugin, hook |-> hook]
LastCall(plugin, hook, out) == [plugin |-> plugin, hook |-> hook, out |-> out]
NoCall == LastCall("", "", HookReturn("ok"))

\* os.path.exists and os.path.isdir
ExistingPaths == {"vmcore", "vmlinux", "debugdir"}
Exists(path) == path \in ExistingPaths
IsDir(path) == path = "debugdir"

MaxOptions == 1       \* options given in a run besides --vmcore and the plugin names

\* the command lines of the model and the environment they run in; an unset
\* vmlinux (None) is ""
CmdLines ==
    [vmcore : {"", "missing", "vmcore"},
     vmlinux : {"", "missing", "vmlinux"},
     debuginfo_dirs : {<<>>, <<"nodir", "debugdir">>},
     debug : BOOLEAN,
     build : BOOLEAN]

Environs == [keep_logs : BOOLEAN, drgn : {"installed", "missing"}]

\* the number of options that a run sets
OptionsGiven(c, env) ==
    (IF c.vmlinux # "" THEN 1 ELSE 0) + (IF c.debuginfo_dirs # <<>> THEN 1 ELSE 0)
    + (IF c.debug THEN 1 ELSE 0) + (IF c.build THEN 1 ELSE 0)
    + (IF env.keep_logs THEN 1 ELSE 0)

LogEntry(level, text) == [level |-> level, text |-> text]

\* the artifact of a run: a tarball or (--build) a directory, the Output
\* Records it holds, where it is (the working area tmpdir or sys_tmp),
\* whether the manifest and the logs went into it, whether a checksum of it
\* was computed, and where the checksum file is
Package(kind, recs, at, manifest, logs, digest, checksum) ==
    [kind |-> kind, records |-> recs, at |-> at, manifest |-> manifest,
     logs |-> logs, digest |-> digest, checksum |-> checksum]
NoPackage == Package("none", <<>>, "none", FALSE, FALSE, FALSE, "none")

\* how the run has ended: by self._exit (SystemExit), os._exit, an exception
\* that leaves execute, or a return; the exception that ended it and the
\* phase it was raised in are history
Ended(how, status, value, e, phase) ==
    [how |-> how, status |-> status, value |-> value, exc |-> e, phase |-> phase]

Running == Ended("running", 0, FALSE, NoError, "")

SystemExit == [type |-> "SystemExit", errno |-> "none"]

\* self.cleanup() and the end of the run: the temporary state, the working
\* directory with it, is removed when clean holds
Terminate(entries, how, status, clean, e) ==
    /\ runlog' = runlog \o entries
    /\ cleaned' = (cleaned \/ clean)
    /\ records' = IF clean THEN <<>> ELSE records
    /\ term' = Ended(how, status, FALSE, e, xpc)
    /\ xpc' = "terminated"

\* a mutant of lines 497-500: the cancellation is handled as any other
\* exception is
HandleKeyboardInterruptAsError(pre) ==
    Terminate(pre \o <<LogEntry("error", "Exiting on user cancel")>>, "exit", 1,
              ~environ.keep_logs, KeyboardInterrupt)

\* lines 497-500: except KeyboardInterrupt
HandleKeyboardInterrupt(pre) ==
    Terminate(pre \o <<LogEntry("error", "Exiting on user cancel")>>, "exit", 130, TRUE,
              KeyboardInterrupt)

\* lines 501-504: except SystemExit
HandleSystemExit(pre, code) ==
    Terminate(pre, "exit", code, ~environ.keep_logs, SystemExit)

\* lines 505-511: except Exception, then self._exit(1); with --debug the
\* exception leaves execute
HandleException(pre, e, msg) ==
    IF cmdline.debug
    THEN Terminate(pre \o <<LogEntry("error", msg)>>, "raise", 1, FALSE, e)
    ELSE Terminate(pre \o <<LogEntry("error", msg)>>, "exit", 1, ~environ.keep_logs, e)

\* the handler of execute that an exception leaving a phase reaches
Handle(pre, e, msg) ==
    IF e.type = "KeyboardInterrupt" THEN HandleKeyboardInterrupt(pre)
    ELSE HandleException(pre, e, msg)

\* the run starts: execute is called on a fresh component (lines 126-132)
EnterExecute ==
    /\ cmdline \in CmdLines
    /\ environ \in Environs
    /\ OptionsGiven(cmdline, environ) <= MaxOptions
    /\ xpc = "validate"
    /\ archive = "none"
    /\ drgn_prog = "none"
    /\ pidx = 0
    /\ hooks = <<>>
    /\ last = NoCall
    /\ records = <<>>
    /\ runlog = <<>>
    /\ cleaned = FALSE
    /\ package = NoPackage
    /\ term = Running

\* a mutant of lines 139-142: the existence of the vmcore is not tested
ValidateErrorNoExists(c) ==
    IF c.vmcore = "" THEN "--vmcore is required"
    ELSE IF c.vmlinux # "" /\ ~Exists(c.vmlinux) THEN "vmlinux not found"
    ELSE ""

\* a mutant of lines 146-148: a debuginfo directory that is none is an error
ValidateErrorDirsFatal(c) ==
    IF c.vmcore = "" THEN "--vmcore is required"
    ELSE IF ~Exists(c.vmcore) THEN "vmcore not found"
    ELSE IF c.vmlinux # "" /\ ~Exists(c.vmlinux) THEN "vmlinux not found"
    ELSE IF \E i \in DOMAIN c.debuginfo_dirs : ~IsDir(c.debuginfo_dirs[i])
         THEN "debuginfo dir not found"
    ELSE ""

\* lines 139-145: the exception that _validate_inputs raises, "" if none
ValidateError(c) ==
    IF c.vmcore = "" THEN "--vmcore is required"
    ELSE IF ~Exists(c.vmcore) THEN "vmcore not found"
    ELSE IF c.vmlinux # "" /\ ~Exists(c.vmlinux) THEN "vmlinux not found"
    ELSE ""

\* lines 146-148: the warnings of _validate_inputs
ValidateWarnings(c) ==
    LET bad == SelectSeq(c.debuginfo_dirs, LAMBDA d : ~IsDir(d)) IN
    [i \in DOMAIN bad |-> LogEntry("warning", "Ignoring non-directory --debuginfo-dir")]

\* lines 482-489: the header, then _validate_inputs
ValidateInputs ==
    /\ xpc = "validate"
    /\ LET err == ValidateError(cmdline) IN
        IF err # ""
        THEN HandleException(<<>>, Exception, err)
        ELSE /\ runlog' = runlog \o ValidateWarnings(cmdline)
             /\ xpc' = "archive"
             /\ UNCHANGED <<cleaned, records, term>>
    /\ UNCHANGED <<last, package, cmdline, environ, archive, drgn_prog, pidx, hooks>>
    /\ UNCHANGED <<scopeVars, selVars>>

\* what setup_archive and the three makedirs can do: succeed, or raise at
\* one of the two stages
ArchiveOutcomes ==
    {[ok |-> TRUE, stage |-> "makedirs", exc |-> Exception]}
    \cup [ok : {FALSE}, stage : {"setup_archive", "makedirs"}, exc : Errors]

\* lines 167-190, called at line 490
PrepareArchive ==
    /\ xpc = "archive"
    /\ \E out \in ArchiveOutcomes :
        LET pre == <<LogEntry("info", "Setting up archive")>>
            left == IF out.stage = "setup_archive" THEN "none" ELSE "created" IN
        IF out.ok
        THEN /\ archive' = "initialized"
             /\ runlog' = runlog \o pre
             /\ xpc' = "drgn"
             /\ UNCHANGED <<cleaned, records, term>>
        ELSE IF IsFatalFs(out.exc)
        THEN \* lines 179-182: the message is printed, nothing is raised
             /\ archive' = left
             /\ runlog' = runlog \o pre
                            \o <<LogEntry("print", "while setting up archive")>>
             /\ xpc' = "drgn"
             /\ UNCHANGED <<cleaned, records, term>>
        ELSE /\ archive' = left
             /\ Handle(CASE out.exc.type = "KeyboardInterrupt" -> pre
                         [] out.exc.type = "OSError" ->
                              pre \o <<LogEntry("print", "Error setting up archive")>>
                         [] OTHER ->
                              pre \o <<LogEntry("error",
                                                "Unexpected exception setting up archive")>>,
                       out.exc, "archive setup failed")
    /\ UNCHANGED <<last, package, cmdline, environ, drgn_prog, pidx, hooks>>
    /\ UNCHANGED <<scopeVars, selVars>>

\* what the import of drgn_context and build_program can do
DrgnOutcomes == {"ok", "import fails", "ModuleNotFoundError", "Exception",
                 "KeyboardInterrupt"}

\* what set_core_dump does, and open_via_sudo after a PermissionError
CoreDumpOutcomes == {"ok", "PermissionError", "Exception"}
SudoOutcomes == {"ok", "fails"}

\* drgn_context.py lines 60-187: the program, or the exception raised; the
\* loading of debuginfo (lines 101-185) never fails the construction
build_program(backend, core, sudo) ==
    IF backend = "missing" THEN "ModuleNotFoundError"
    ELSE IF core = "ok" THEN "ok"
    ELSE IF core = "PermissionError" /\ sudo = "ok" THEN "ok"
    ELSE "Exception"

\* a mutant of lines 205-210: the missing backend is reported as any other
\* failure of build_program
InitDrgnMessageSame(out) ==
    IF out = "import fails" THEN "Failed to import drgn context"
    ELSE "Failed to initialize drgn program"

\* lines 196-210: the message of the Exception that _init_drgn raises
InitDrgnMessage(out) ==
    IF out = "import fails" THEN "Failed to import drgn context"
    ELSE IF out = "ModuleNotFoundError" THEN "drgn is not installed"
    ELSE "Failed to initialize drgn program"

\* lines 192-210, called at line 491
InitDrgn ==
    /\ xpc = "drgn"
    /\ \E out \in DrgnOutcomes :
        /\ out \in {"ok", "ModuleNotFoundError", "Exception"} =>
              \E core \in CoreDumpOutcomes, sudo \in SudoOutcomes :
                  build_program(environ.drgn, core, sudo) = out
        /\ CASE out = "ok" ->
                /\ drgn_prog' = "open"
                /\ xpc' = "discover"
                /\ UNCHANGED <<runlog, cleaned, records, term>>
          [] out \in {"import fails", "ModuleNotFoundError", "Exception"} ->
                /\ HandleException(<<>>, Exception, InitDrgnMessage(out))
                /\ UNCHANGED drgn_prog
          [] out = "KeyboardInterrupt" ->
                /\ HandleKeyboardInterrupt(<<>>)
                /\ UNCHANGED drgn_prog
    /\ UNCHANGED <<last, package, cmdline, environ, archive, pidx, hooks>>
    /\ UNCHANGED <<scopeVars, selVars>>

(***************************************************************************)
(* Discovery as execute calls it, and _run_plugins: one plugin at a time,  *)
(* its constructor and its three hooks one after the other.                *)
(***************************************************************************)
MaxWrites == 1        \* Output Records that one collect writes

\* line 492: execute calls _discover_plugins
CallDiscoverPlugins ==
    /\ xpc = "discover"
    /\ dpc = "idle"
    /\ dpc' = "start"
    /\ UNCHANGED <<opts, modules, mi, cls, discovered, classes, loaded, skipped, warnings>>
    /\ UNCHANGED <<scopeVars, runVars>>

\* lines 493-495 and 286-290: _discover_plugins has returned, the loop of
\* _run_plugins is entered
StartRunPlugins ==
    /\ xpc = "discover"
    /\ dpc = "done"
    /\ runlog' = runlog
                  \o (IF loaded = <<>>
                      THEN <<LogEntry("warning", "No vmcore-report plugins enabled")>>
                      ELSE <<>>)
                  \o <<LogEntry("info", "Running drgn plugins")>>
    /\ pidx' = 0
    /\ xpc' = "plugins"
    /\ UNCHANGED <<last, package, cmdline, environ, archive, drgn_prog, hooks, records, cleaned, term>>
    /\ UNCHANGED <<scopeVars, selVars>>

\* a KeyboardInterrupt raised between the calls of a phase: no handler but
\* the one of execute catches it
UserCancel ==
    /\ \/ xpc = "validate"
       \/ xpc = "discover"
       \/ xpc = "plugins"
    /\ HandleKeyboardInterrupt(<<>>)
    /\ UNCHANGED <<last, package, cmdline, environ, archive, drgn_prog, pidx, hooks>>
    /\ UNCHANGED <<scopeVars, selVars>>

\* the plugin that the loop is at
CurrentPlugin == loaded[pidx + 1].name

\* the constructor or a hook of the current plugin is called and ends
Called(hook, out) ==
    /\ hooks' = Append(hooks, HookCall(CurrentPlugin, hook))
    /\ last' = LastCall(CurrentPlugin, hook, out)

\* a mutant of lines 311-312: the cancellation is logged as a failure of
\* the plugin
PluginRaisesNoCancel(e) ==
    IF IsFatalFs(e)
    THEN /\ Terminate(<<LogEntry("error", "while running plugin"),
                        LogEntry("error", "Data collected still available")>>,
                      "os_exit", 1, FALSE, e)
         /\ UNCHANGED pidx
    ELSE /\ runlog' = Append(runlog, LogEntry("exception", "Plugin failed"))
         /\ pidx' = pidx + 1
         /\ xpc' = "plugins"
         /\ UNCHANGED <<cleaned, records, term>>

\* a mutant of lines 320-322: a failure of the plugin ends the loop
PluginRaisesEndsLoop(e) ==
    IF e.type = "KeyboardInterrupt"
    THEN /\ HandleKeyboardInterrupt(<<>>)
         /\ UNCHANGED pidx
    ELSE IF IsFatalFs(e)
    THEN /\ Terminate(<<LogEntry("error", "while running plugin"),
                        LogEntry("error", "Data collected still available")>>,
                      "os_exit", 1, FALSE, e)
         /\ UNCHANGED pidx
    ELSE /\ runlog' = Append(runlog, LogEntry("exception", "Plugin failed"))
         /\ pidx' = Len(loaded)
         /\ xpc' = "plugins"
         /\ UNCHANGED <<cleaned, records, term>>

\* lines 311-322: an exception reaches the handlers of the loop body
PluginRaises(e) ==
    IF e.type = "KeyboardInterrupt"
    THEN \* re-raised, execute handles it
         /\ HandleKeyboardInterrupt(<<>>)
         /\ UNCHANGED pidx
    ELSE IF IsFatalFs(e)
    THEN \* os._exit(1): no handler of execute runs
         /\ Terminate(<<LogEntry("error", "while running plugin"),
                        LogEntry("error", "Data collected still available")>>,
                      "os_exit", 1, FALSE, e)
         /\ UNCHANGED pidx
    ELSE /\ runlog' = Append(runlog, LogEntry("exception", "Plugin failed"))
         /\ pidx' = pidx + 1
         /\ xpc' = "plugins"
         /\ UNCHANGED <<cleaned, records, term>>

\* lines 291-300: the next plugin is started and constructed
ConstructPlugin ==
    /\ xpc = "plugins"
    /\ pidx < Len(loaded)
    /\ \E out \in {HookReturn("ok")} \cup {HookRaise(e) : e \in Errors} :
        /\ Called("__init__", out)
        /\ IF out.ret = "ok"
           THEN /\ xpc' = "check_enabled"
                /\ UNCHANGED <<pidx, runlog, cleaned, records, term>>
           ELSE PluginRaises(out.exc)
    /\ UNCHANGED <<package, cmdline, environ, archive, drgn_prog>>
    /\ UNCHANGED <<scopeVars, selVars>>

\* a mutant of lines 302-308: a check that raises does not stop the plugin
InactiveSkipsOnlyFalse(out) == out.ret = "False"

\* lines 303-308: the check returned false, or raised an Exception
Inactive(out) == out.ret = "False" \/ (out.ret = "raise" /\ IsException(out.exc))

\* a mutant of lines 304 and 307: the inactive plugin is recorded twice
CheckEnabledSkipsTwice ==
    /\ xpc = "check_enabled"
    /\ \E out \in {HookReturn("True"), HookReturn("False")}
                   \cup {HookRaise(e) : e \in Errors} :
        /\ Called("check_enabled", out)
        /\ IF Inactive(out)
           THEN /\ skipped' = skipped \o <<<<CurrentPlugin, "inactive">>, <<CurrentPlugin, "inactive">>>>
                /\ pidx' = pidx + 1
                /\ xpc' = "plugins"
                /\ UNCHANGED <<runlog, cleaned, records, term>>
           ELSE IF out.ret = "raise"
           THEN PluginRaises(out.exc) /\ UNCHANGED skipped
           ELSE /\ xpc' = "setup"
                /\ UNCHANGED <<skipped, pidx, runlog, cleaned, records, term>>
    /\ UNCHANGED <<package, cmdline, environ, archive, drgn_prog>>
    /\ UNCHANGED <<opts, modules, mi, cls, discovered, classes, loaded, warnings, dpc>>
    /\ UNCHANGED scopeVars

\* lines 301-308: the runtime activation check
CheckEnabled ==
    /\ xpc = "check_enabled"
    /\ \E out \in {HookReturn("True"), HookReturn("False")}
                   \cup {HookRaise(e) : e \in Errors} :
        /\ Called("check_enabled", out)
        /\ IF Inactive(out)
           THEN /\ skipped' = Append(skipped, <<CurrentPlugin, "inactive">>)
                /\ pidx' = pidx + 1
                /\ xpc' = "plugins"
                /\ UNCHANGED <<runlog, cleaned, records, term>>
           ELSE IF out.ret = "raise"
           THEN PluginRaises(out.exc) /\ UNCHANGED skipped
           ELSE /\ xpc' = "setup"
                /\ UNCHANGED <<skipped, pidx, runlog, cleaned, records, term>>
    /\ UNCHANGED <<package, cmdline, environ, archive, drgn_prog>>
    /\ UNCHANGED <<opts, modules, mi, cls, discovered, classes, loaded, warnings, dpc>>
    /\ UNCHANGED scopeVars

\* line 309
SetupPlugin ==
    /\ xpc = "setup"
    /\ \E out \in {HookReturn("ok")} \cup {HookRaise(e) : e \in Errors} :
        /\ Called("setup", out)
        /\ IF out.ret = "ok"
           THEN /\ xpc' = "collect"
                /\ UNCHANGED <<pidx, runlog, cleaned, records, term>>
           ELSE PluginRaises(out.exc)
    /\ UNCHANGED <<package, cmdline, environ, archive, drgn_prog>>
    /\ UNCHANGED <<scopeVars, selVars>>

OutputRecord(plugin, n) == [plugin |-> plugin, path |-> <<"plugins", plugin, n>>]

RecordsOf(recs, plugin) == SelectSeq(recs, LAMBDA r : r.plugin = plugin)

\* plugin.py lines 77-83, called from a collect: write_text adds a file to
\* the archive
PluginWrites ==
    /\ xpc = "collect"
    /\ archive # "none"
    /\ Len(RecordsOf(records, CurrentPlugin)) < MaxWrites
    /\ records' = Append(records,
                         OutputRecord(CurrentPlugin,
                                      Len(RecordsOf(records, CurrentPlugin)) + 1))
    /\ UNCHANGED <<last, package, cmdline, environ, xpc, archive, drgn_prog, pidx, hooks, runlog,
                   cleaned, term>>
    /\ UNCHANGED <<scopeVars, selVars>>

\* line 310: collect ends, by a return or by an exception
CollectPlugin ==
    /\ xpc = "collect"
    /\ \E out \in {HookReturn("ok")} \cup {HookRaise(e) : e \in Errors} :
        /\ Called("collect", out)
        /\ IF out.ret = "ok"
           THEN /\ pidx' = pidx + 1
                /\ xpc' = "plugins"
                /\ UNCHANGED <<runlog, cleaned, records, term>>
           ELSE PluginRaises(out.exc)
    /\ UNCHANGED <<package, cmdline, environ, archive, drgn_prog>>
    /\ UNCHANGED <<scopeVars, selVars>>

\* lines 324-325: the loop is over
FinishRunPlugins ==
    /\ xpc = "plugins"
    /\ pidx = Len(loaded)
    /\ runlog' = Append(runlog, LogEntry("info", "Finished running plugins"))
    /\ xpc' = "finalize"
    /\ UNCHANGED <<last, package, cmdline, environ, archive, drgn_prog, pidx, hooks, records, cleaned,
                   term>>
    /\ UNCHANGED <<scopeVars, selVars>>

(***************************************************************************)
(* _finalize, and the value that execute returns.                          *)
(***************************************************************************)
\* what the collaborators of _finalize do: the manifest, the logs, the
\* archive's finalize, the checksum, and the renames; a collaborator that
\* an earlier outcome keeps from being called is left at its first value.
\* checksum: "ok", "none" (_create_checksum returns None), "write fails"
\* (the open of _write_checksum raises) or "hash_name raises"
\* (policy.get_preferred_hash_name raises, line 418)
FinalizeOutcomes ==
    {env \in [manifest : {"ok", "fails"},
              logs : {NoError, Exception, KeyboardInterrupt},
              fin : {NoError} \cup Errors,
              checksum : {"ok", "none", "write fails", "hash_name raises"},
              rename : {"ok", "OSError"},
              rename_hash : {"ok", "OSError"}] :
        /\ (env.logs # NoError \/ cmdline.build) => env.fin = NoError
        /\ (env.logs # NoError \/ cmdline.build \/ env.fin # NoError)
              => (env.checksum = "ok" /\ env.rename_hash = "ok")
        /\ (env.logs # NoError \/ env.fin # NoError \/ env.checksum = "hash_name raises")
              => env.rename = "ok"
        \* line 449: without a checksum file its rename raises; after a rename
        \* of the archive that failed it is not reached
        /\ env.checksum \in {"none", "write fails", "hash_name raises"}
              => env.rename_hash = "OSError"
        /\ (env.rename = "OSError" /\ env.checksum = "ok") => env.rename_hash = "ok"}

\* without an archive object every use of self.archive raises AttributeError
PossibleFinalize(env) ==
    archive = "none" => /\ env.manifest = "fails"
                        /\ (env.logs = NoError /\ ~cmdline.build) => env.fin = Exception

\* lines 461-468: the cleanup at the end of _finalize, which returns True;
\* what is still in the working area goes with it
ReturnTrue(pre, pkg) ==
    /\ runlog' = runlog \o pre
    /\ package' = IF pkg.at = "tmpdir" THEN NoPackage
                  ELSE IF pkg.checksum = "tmpdir" THEN [pkg EXCEPT !.checksum = "none"]
                  ELSE pkg
    /\ records' = <<>>
    /\ term' = Ended("return", 0, TRUE, NoError, xpc)
    /\ xpc' = "terminated"
    /\ UNCHANGED cleaned

\* lines 413 and 446: a rename failed, _finalize returns False at once and
\* the working area is left as it is
ReturnFalse(pre, pkg) ==
    /\ runlog' = runlog \o pre
    /\ package' = pkg
    /\ term' = Ended("return", 0, FALSE, NoError, xpc)
    /\ xpc' = "terminated"
    /\ UNCHANGED <<records, cleaned>>

\* lines 363-368: whether the manifest went into the archive
ManifestWritten(env) == env.manifest = "ok"

\* lines 416-432: what the log gets of the checksum
ChecksumLog(env) ==
    IF env.checksum = "none" THEN <<LogEntry("exception", "Error generating checksum")>>
    ELSE IF env.checksum = "write fails"
    THEN <<LogEntry("exception", "Error writing checksum file")>>
    ELSE IF env.checksum = "hash_name raises"
    THEN <<LogEntry("print", "Error generating archive checksum after archive creation.")>>
    ELSE <<>>

\* lines 384 and 416-432: the tarball that archive.finalize has made in
\* the working area, and the checksum file next to it
Tarball(env) ==
    Package("tarball", records, "tmpdir", ManifestWritten(env), TRUE,
            env.checksum \in {"ok", "write fails"},
            IF env.checksum = "ok" THEN "tmpdir" ELSE "none")

\* a mutant of lines 448-451: the checksum file is not moved
RelocatedWithoutChecksum(pkg, env) == [pkg EXCEPT !.at = "sys_tmp"]

\* lines 441-451: the two renames into sys_tmp
Relocated(pkg, env) ==
    [pkg EXCEPT !.at = "sys_tmp",
                !.checksum = IF pkg.checksum = "tmpdir" /\ env.rename_hash = "ok"
                             THEN "sys_tmp" ELSE pkg.checksum]

\* lines 505-510 for an exception that leaves _finalize when the artifact
\* pkg is in the working area: self.cleanup() removes it with the area
LeavesFinalize(pre, e, msg, pkg) ==
    /\ HandleException(pre, e, msg)
    /\ package' = IF cleaned' THEN NoPackage ELSE pkg

\* a mutant of lines 363-367: the exception of the manifest is not caught
ManifestRaisesUncaught(env) == IF env.manifest = "fails" THEN Exception ELSE NoError

\* lines 363-367: the exception that leaves the try of the manifest
ManifestRaises(env) == NoError

\* line 367: the warning of a manifest that was not written
ManifestLog(env) ==
    IF env.manifest = "fails"
    THEN <<LogEntry("warning", "Failed writing manifest")>>
    ELSE <<>>

\* how _finalize ends: by a return of True or False, or by an exception
\* that leaves it; what it has logged, and the artifact it has made
FinalizeEnds(end, entries, pkg, msg) ==
    [end |-> end, entries |-> entries, pkg |-> pkg, msg |-> msg]

\* lines 361-459 for one behaviour of the collaborators
FinalizeEnd(env) ==
    LET pre == ManifestLog(env)
        dir == Package("directory", records, "tmpdir", ManifestWritten(env), TRUE,
                       FALSE, "none")
    IN
    IF ManifestRaises(env) # NoError
    THEN FinalizeEnds("Exception", <<>>, NoPackage, "finalize failed")
    ELSE IF env.logs # NoError
    THEN \* _add_logs raises: nothing in _finalize catches it
         FinalizeEnds(env.logs.type, pre, NoPackage, "finalize failed")
    ELSE IF cmdline.build
    THEN \* lines 404-413
         IF archive = "none"
         THEN FinalizeEnds("Exception", pre, NoPackage, "finalize failed")
         ELSE IF env.rename = "OSError"
         THEN FinalizeEnds("False", pre \o <<LogEntry("print", "Error moving directory")>>,
                           dir, "")
         ELSE FinalizeEnds("True", pre, Relocated(dir, env), "")
    ELSE \* lines 379-402
         IF env.fin.type = "KeyboardInterrupt"
         THEN FinalizeEnds("KeyboardInterrupt", pre, NoPackage, "")
         ELSE IF IsFatalFs(env.fin)
         THEN FinalizeEnds("SystemExit",
                           pre \o <<LogEntry("print", "while finalizing archive")>>,
                           NoPackage, "")
         ELSE IF env.fin.type = "Exception" /\ cmdline.debug
         THEN FinalizeEnds("Exception", pre, NoPackage, "finalize failed")
         ELSE IF env.fin # NoError
         THEN \* lines 456-457: no archive, the cleanup still runs
              FinalizeEnds("True",
                           pre \o (IF env.fin.type = "OSError"
                                   THEN <<LogEntry("print", "while finalizing archive")>>
                                   ELSE <<>>)
                               \o <<LogEntry("print", "Creating archive tarball failed.")>>,
                           NoPackage, "")
         ELSE \* lines 416-455
              IF env.checksum = "hash_name raises"
              THEN \* line 438 reads hash_name, which line 418 never bound
                   FinalizeEnds("Exception", pre \o ChecksumLog(env), Tarball(env),
                                "local variable 'hash_name' referenced before assignment")
              ELSE IF env.rename = "OSError"
              THEN FinalizeEnds("False",
                                pre \o ChecksumLog(env)
                                    \o <<LogEntry("print", "Error moving archive file")>>,
                                Tarball(env), "")
              ELSE FinalizeEnds("True",
                                pre \o ChecksumLog(env)
                                    \o (IF env.rename_hash = "OSError"
                                        THEN <<LogEntry("print", "Error moving checksum file")>>
                                        ELSE <<>>),
                                Relocated(Tarball(env), env), "")

\* lines 361-468, called at line 496, and the handlers of execute
Finalize ==
    /\ xpc = "finalize"
    /\ \E env \in FinalizeOutcomes :
        /\ PossibleFinalize(env)
        /\ LET r == FinalizeEnd(env) IN
           CASE r.end = "True" -> ReturnTrue(r.entries, r.pkg)
             [] r.end = "False" -> ReturnFalse(r.entries, r.pkg)
             [] r.end = "KeyboardInterrupt" ->
                    HandleKeyboardInterrupt(r.entries) /\ UNCHANGED package
             [] r.end = "SystemExit" ->
                    HandleSystemExit(r.entries, 1) /\ UNCHANGED package
             [] r.end = "Exception" ->
                    LeavesFinalize(r.entries, Exception, r.msg, r.pkg)
    /\ UNCHANGED <<last, cmdline, environ, archive, drgn_prog, pidx, hooks>>
    /\ UNCHANGED <<scopeVars, selVars>>

\* a step of _discover_plugins while execute is in it; the plugin package
\* of a run holds no experimental plugin
DiscoverStep ==
    /\ xpc = "discover"
    /\ NextSelect
    /\ \A i \in DOMAIN classes' : ~classes'[i].experimental

NextRun ==
    \/ ValidateInputs
    \/ PrepareArchive
    \/ InitDrgn
    \/ CallDiscoverPlugins
    \/ DiscoverStep
    \/ StartRunPlugins
    \/ ConstructPlugin
    \/ CheckEnabled
    \/ SetupPlugin
    \/ PluginWrites
    \/ CollectPlugin
    \/ FinishRunPlugins
    \/ Finalize
    \/ UserCancel

(***************************************************************************)
(* The specifications: run_scope alone, and _discover_plugins alone.       *)
(***************************************************************************)
IdleScope ==
    /\ scope = "proc"
    /\ pkgModules = <<>>
    /\ sess = HealthySession
    /\ emitters = <<>>
    /\ ei = 0
    /\ keys = <<>>
    /\ ki = 0
    /\ outputs = <<>>
    /\ calls = <<>>
    /\ rpc = "idle"

IdleSelect ==
    /\ opts = [only_plugins |-> {}, plugins |-> {}, skip_plugins |-> {},
               enable_plugins |-> {}, experimental |-> FALSE]
    /\ modules = <<>>
    /\ mi = 0
    /\ cls = NoClass
    /\ discovered = <<>>
    /\ classes = <<>>
    /\ loaded = <<>>
    /\ skipped = <<>>
    /\ warnings = <<>>
    /\ dpc = "idle"

\* execute is not running
IdleRun ==
    /\ cmdline = [vmcore |-> "", vmlinux |-> "", debuginfo_dirs |-> <<>>,
                  debug |-> FALSE, build |-> FALSE]
    /\ environ = [keep_logs |-> FALSE, drgn |-> "installed"]
    /\ xpc = "idle"
    /\ archive = "none"
    /\ drgn_prog = "none"
    /\ pidx = 0
    /\ hooks = <<>>
    /\ last = NoCall
    /\ records = <<>>
    /\ runlog = <<>>
    /\ cleaned = FALSE
    /\ package = NoPackage
    /\ term = Running

InitScope == EnterRunScope /\ IdleSelect /\ IdleRun

InitSelect == EnterDiscoverPlugins /\ IdleScope /\ IdleRun

SpecScope == InitScope /\ [][NextScope]_vars

SpecSelect == InitSelect /\ [][NextSelect]_vars

InitRun == EnterExecute /\ IdleScope /\ IdleSelect

SpecRun == InitRun /\ [][NextRun]_vars

\* the two discoveries, of the producers of a scope (list_emitters) and of
\* the plugins (_discover_plugins), each run on its own
NextDiscovery ==
    \/ ListEmitters
    \/ ListModules
    \/ ImportFails
    \/ ImportEmpty
    \/ SelectPlugin
    \/ WarnUnknown

InitDiscovery ==
    /\ \/ EnterRunScope /\ IdleSelect
       \/ EnterDiscoverPlugins /\ IdleScope
    /\ IdleRun

SpecDiscovery == InitDiscovery /\ [][NextDiscovery]_vars

(***************************************************************************)
(* The collect of a wrapper plugin (plugins/vmcore_procfs.py,              *)
(* vmcore_sysfs.py, vmcore_commands.py): run_scope on the plugin's scope,  *)
(* then write_files on what it returns, or ERROR.txt when it raises. The   *)
(* three differ in the scope and the first word of the message only.       *)
(* records holds the calls of archive.add_string in order.                 *)
(***************************************************************************)
WrapperName(sc) ==
    IF sc = "proc" THEN "vmcore_procfs"
    ELSE IF sc = "sys" THEN "vmcore_sysfs"
    ELSE IF sc = "commands" THEN "vmcore_commands"
    ELSE "vmcore_wrapper"

\* the first word of the wrapper's message
WrapperWord(sc) == IF sc = "commands" THEN "sos_commands" ELSE sc

\* what run_scope has raised: the ValueError of list_emitters, or what a
\* body has raised and no handler of run_scope catches
RaisedByRunScope ==
    IF scope \notin ValidScopes THEN Raise("ValueError", <<"invalid scope: ", scope>>)
    ELSE calls[Len(calls)].o

\* archive.add_string(text, path, mode="w") as called for a plugin
AddString(plugin, path, text) == [plugin |-> plugin, path |-> path, text |-> text]

\* plugin.py lines 74-75 under the outdir of _run_plugins, plugins/<name>
Join(plugin, relpath) == <<"plugins/", plugin, "/", relpath>>

\* plugin.py lines 77-83
WriteText(plugin, relpath, content) == AddString(plugin, Join(plugin, relpath), content)

\* a mutant of writer.py lines 22-25: a path already written is left alone
WriteFilesOnce(plugin, files) ==
    LET firsts == SelectSeq([i \in DOMAIN files |-> [i |-> i, f |-> files[i]]],
                            LAMBDA x : \A j \in 1..(x.i - 1) : files[j].path # x.f.path)
    IN [i \in DOMAIN firsts |-> AddString(plugin, firsts[i].f.path, firsts[i].f.text)]

\* writer.py lines 13-25: one add_string for each (path, text), in order
WriteFiles(plugin, files) ==
    [i \in DOMAIN files |-> AddString(plugin, files[i].path, files[i].text)]

\* the except branch of collect: self.write_text("ERROR.txt", ...)
CollectError(plugin, sc, e) ==
    <<WriteText(plugin, "ERROR.txt", <<WrapperWord(sc), " emitters failed: ", e.msg, "\n">>)>>

\* run_scope has returned: write_files(self.archive, outputs)
CollectWrites ==
    /\ rpc = "returned"
    /\ records' = records \o WriteFiles(WrapperName(scope), outputs)
    /\ rpc' = "collected"
    /\ UNCHANGED <<scope, pkgModules, sess, emitters, ei, keys, ki, outputs, calls>>
    /\ UNCHANGED <<cmdline, environ, xpc, archive, drgn_prog, pidx, hooks, last, runlog, cleaned,
                   package, term>>
    /\ UNCHANGED selVars

\* run_scope has raised: an Exception is caught and ERROR.txt written, and
\* collect returns; anything else leaves collect
CollectCatches ==
    /\ rpc = "raised"
    /\ IF CaughtByExcept(RaisedByRunScope)
       THEN /\ records' = records \o CollectError(WrapperName(scope), scope, RaisedByRunScope)
            /\ rpc' = "collected"
       ELSE /\ records' = records
            /\ rpc' = "propagated"
    /\ UNCHANGED <<scope, pkgModules, sess, emitters, ei, keys, ki, outputs, calls>>
    /\ UNCHANGED <<cmdline, environ, xpc, archive, drgn_prog, pidx, hooks, last, runlog, cleaned,
                   package, term>>
    /\ UNCHANGED selVars

NextCollect ==
    \/ ListEmitters
    \/ RunFixed
    \/ MissingEnumerator
    \/ StartEnumeration
    \/ RunKey
    \/ ReturnOutputs
    \/ CollectWrites
    \/ CollectCatches

InitCollect == EnterRunScope /\ IdleSelect /\ IdleRun

SpecCollect == InitCollect /\ [][NextCollect]_vars

(***************************************************************************)
(* The enumerators as chains of strategies. A strategy body ends by        *)
(* "return" (the generator is finished), by "fall" (control goes on to the *)
(* next strategy) or by "raise"; the keys are what it has yielded so far.  *)
(***************************************************************************)
StrategyEnd(end, ks) == [end |-> end, keys |-> ks]

\* a mutant of the handlers: no except clause around the strategy
ExceptNothing(r) == r

\* except Exception: pass (lines 147, 166, 211)
ExceptPass(r) == IF r.end = "raise" THEN StrategyEnd("fall", r.keys) ELSE r

\* except Exception: return [] (line 190)
ExceptReturn(r) == IF r.end = "raise" THEN StrategyEnd("return", r.keys) ELSE r

\* lines 115-146, the body of the first try
ForEachPidBody(s) ==
    LET pid_max == IF s.pidMax.ok THEN s.pidMax.v ELSE PidMaxDefault
        cands == {s.forEachPid[i].v : i \in {j \in DOMAIN s.forEachPid : s.forEachPid[j].ok}}
        pset == {c \in cands : 0 < c /\ c <= pid_max}
    IN IF ~s.pidImport \/ Raises(s.forEachPid, s.forEachPidFailAfter)
       THEN StrategyEnd("raise", <<>>)
       ELSE IF pset = {} THEN StrategyEnd("fall", <<>>)
       ELSE StrategyEnd("return", KeySets("pid", Sorted(pset)))

\* lines 152-165, the body of the second try
ForEachTaskBody(s) ==
    LET pset == {s.tasks[i].v : i \in {j \in DOMAIN s.tasks : s.tasks[j].ok}}
    IN IF ~s.taskImport \/ Raises(s.tasks, s.tasksFailAfter)
       THEN StrategyEnd("raise", <<>>)
       ELSE StrategyEnd("return", KeySets("pid", Sorted({p \in pset : p > 0})))

\* lines 171-189, the body of the third try
InitTaskBody(s) ==
    IF ~s.initTaskOk THEN StrategyEnd("raise", <<>>)
    ELSE StrategyEnd("return", KeySets("pid", PidsFromInitTask(s)))

\* lines 206-210, the body of the try of enumerate_cpus
CpuMaskBody(s) ==
    IF ~s.cpumaskImport \/ ~s.cpuMaskOk THEN StrategyEnd("raise", <<>>)
    ELSE IF Raises(s.cpuMask, s.cpuMaskFailAfter)
         THEN StrategyEnd("raise", KeySets("cpu", Consumed(s.cpuMask, s.cpuMaskFailAfter)))
         ELSE StrategyEnd("return", KeySets("cpu", s.cpuMask))

\* lines 215-220: nr_cpu_ids or the single cpu 0
NrCpuIdsBody(s) ==
    LET count == NrCpuIds(s)
    IN StrategyEnd("return",
                   KeySets("cpu", IF count > 0 THEN [i \in 1..count |-> i - 1] ELSE <<0>>))

\* the strategies of an enumerator, in the order of the source text
Strategies(name, s) ==
    IF name = "enumerate_pids"
    THEN <<ExceptPass(ForEachPidBody(s)), ExceptPass(ForEachTaskBody(s)),
           ExceptReturn(InitTaskBody(s))>>
    ELSE <<ExceptPass(CpuMaskBody(s)), NrCpuIdsBody(s)>>

\* the run of a generator: the strategies are tried from the i-th on until
\* one does not fall through; falling off the last one ends the generator
RECURSIVE RunStrategies(_, _, _, _)
RunStrategies(ss, i, ks, tried) ==
    IF i > Len(ss) THEN [end |-> "return", keys |-> ks, tried |-> tried]
    ELSE IF ss[i].end = "fall"
         THEN RunStrategies(ss, i + 1, ks \o ss[i].keys, Append(tried, i))
         ELSE [end |-> ss[i].end, keys |-> ks \o ss[i].keys, tried |-> Append(tried, i)]

EnumRun(name, s) == RunStrategies(Strategies(name, s), 1, <<>>, <<>>)

(***************************************************************************)
(* enumerate_pids on its own: the programs it is called on, and the call.  *)
(* What a strategy that is not reached would read is left empty.           *)
(***************************************************************************)
MaxPidItems == 3      \* items that a helper or the task list yields

\* what an item converts to: no integer, 0, or a pid
PidItems == {Bad, Val(0), Val(1), Val(2)}

\* the readings of pid_max: none, 0, or 1 (which makes 2 too large)
PidMaxReadings == {Bad, Val(0), Val(1)}

PidItemLists == UNION {[1..n -> PidItems] : n \in 0..MaxPidItems}

\* what the first strategy reads: a helper that does not import reads
\* nothing, one that raises does so after its first item
ForEachPidReads ==
    {f \in [pidImport : BOOLEAN, pidMax : PidMaxReadings, forEachPid : PidItemLists,
            forEachPidFailAfter : {-1, 1}] :
        /\ ~f.pidImport => (f.forEachPid = <<>> /\ f.forEachPidFailAfter = -1 /\ f.pidMax = Bad)
        /\ f.forEachPidFailAfter = 1 => Len(f.forEachPid) = 1}

\* what the second strategy reads
ForEachTaskReads ==
    {t \in [taskImport : BOOLEAN, tasks : PidItemLists, tasksFailAfter : {-1, 1}] :
        /\ ~t.taskImport => (t.tasks = <<>> /\ t.tasksFailAfter = -1)
        /\ t.tasksFailAfter = 1 => Len(t.tasks) = 1}

\* what the third strategy reads
InitTaskReads ==
    {l \in [initTaskOk : BOOLEAN, taskList : PidItemLists] :
        ~l.initTaskOk => l.taskList = <<>>}

NoTaskReads == [taskImport |-> TRUE, tasks |-> <<>>, tasksFailAfter |-> -1]
NoInitTaskReads == [initTaskOk |-> TRUE, taskList |-> <<>>]

\* lines 114-148 fall through to the second strategy
ForEachPidFalls(s) ==
    LET pid_max == IF s.pidMax.ok THEN s.pidMax.v ELSE PidMaxDefault IN
    \/ ~s.pidImport
    \/ Raises(s.forEachPid, s.forEachPidFailAfter)
    \/ \A i \in DOMAIN s.forEachPid :
          ~(s.forEachPid[i].ok /\ 0 < s.forEachPid[i].v /\ s.forEachPid[i].v <= pid_max)

\* lines 151-167 fall through to the third strategy
ForEachTaskFalls(s) == ~s.taskImport \/ Raises(s.tasks, s.tasksFailAfter)

PidSession(f, t, l) ==
    [HealthySession EXCEPT !.pidImport = f.pidImport, !.pidMax = f.pidMax,
                           !.forEachPid = f.forEachPid,
                           !.forEachPidFailAfter = f.forEachPidFailAfter,
                           !.taskImport = t.taskImport, !.tasks = t.tasks,
                           !.tasksFailAfter = t.tasksFailAfter,
                           !.initTaskOk = l.initTaskOk, !.taskList = l.taskList]

\* enumerate_pids is called on a program; what a strategy reads is varied
\* when the strategy is reached
EnterEnumeratePids ==
    /\ scope = "proc"
    /\ pkgModules = <<>>
    /\ \E f \in ForEachPidReads :
        IF ~ForEachPidFalls(f)
        THEN sess = PidSession(f, NoTaskReads, NoInitTaskReads)
        ELSE \E t \in ForEachTaskReads :
                IF ~ForEachTaskFalls(t)
                THEN sess = PidSession(f, t, NoInitTaskReads)
                ELSE \E l \in InitTaskReads : sess = PidSession(f, t, l)
    /\ emitters = <<>>
    /\ ei = 0
    /\ keys = <<>>
    /\ ki = 0
    /\ outputs = <<>>
    /\ calls = <<>>
    /\ rpc = "enumerate"

\* lines 94-192: the generator is run to its end
CallEnumeratePids ==
    /\ rpc = "enumerate"
    /\ keys' = EnumeratePids(sess)
    /\ rpc' = IF EnumRun("enumerate_pids", sess).end = "raise" THEN "raised" ELSE "yielded"
    /\ UNCHANGED <<scope, pkgModules, sess, emitters, ei, ki, outputs, calls>>
    /\ UNCHANGED <<selVars, runVars>>

(***************************************************************************)
(* enumerate_cpus on its own: the programs it is called on, and the call.  *)
(***************************************************************************)
MaxCpuIds == 3        \* cpu ids that a mask or nr_cpu_ids can name

\* cpumask_to_cpus gives the cpus of the mask in ascending order
CpuMasks == {Sorted(m) : m \in SUBSET (0..(MaxCpuIds - 1))}

\* the readings of nr_cpu_ids: none, 0, or a count
NrCpuIdsReadings == {Bad} \cup {Val(n) : n \in 0..MaxCpuIds}

CpuSession(imp, ok, mask, failAfter, nr) ==
    [HealthySession EXCEPT !.cpumaskImport = imp, !.cpuMaskOk = ok, !.cpuMask = mask,
                           !.cpuMaskFailAfter = failAfter, !.nrCpuIds = nr]

\* enumerate_cpus is called on a program; the mask is varied when it is
\* reached, nr_cpu_ids when the mask has failed
EnterEnumerateCpus ==
    /\ scope = "commands"
    /\ pkgModules = <<>>
    /\ \/ \E mask \in CpuMasks : sess = CpuSession(TRUE, TRUE, mask, -1, Val(Len(mask)))
       \/ \E nr \in NrCpuIdsReadings :
            \/ sess = CpuSession(FALSE, TRUE, <<>>, -1, nr)
            \/ sess = CpuSession(TRUE, FALSE, <<>>, -1, nr)
            \/ \E mask \in CpuMasks : \E failAfter \in 0..Len(mask) :
                  sess = CpuSession(TRUE, TRUE, mask, failAfter, nr)
    /\ emitters = <<>>
    /\ ei = 0
    /\ keys = <<>>
    /\ ki = 0
    /\ outputs = <<>>
    /\ calls = <<>>
    /\ rpc = "enumerate_cpus"

\* lines 202-220: the generator is run to its end
CallEnumerateCpus ==
    /\ rpc = "enumerate_cpus"
    /\ keys' = EnumerateCpus(sess)
    /\ rpc' = IF EnumRun("enumerate_cpus", sess).end = "raise" THEN "raised" ELSE "yielded_cpus"
    /\ UNCHANGED <<scope, pkgModules, sess, emitters, ei, ki, outputs, calls>>
    /\ UNCHANGED <<selVars, runVars>>

NextEnum == CallEnumeratePids \/ CallEnumerateCpus

InitEnum == (EnterEnumeratePids \/ EnterEnumerateCpus) /\ IdleSelect /\ IdleRun

SpecEnum == InitEnum /\ [][NextEnum]_vars

(***************************************************************************)
(* Claims about run_scope, checked under SpecScope.                        *)
(***************************************************************************)
\* the entries of outputs appended for emitter e, and the other ones
OutputsOf(e) == SelectSeq(outputs, LAMBDA r : r.em = e)
OutputsBut(outs, e) == SelectSeq(outs, LAMBDA r : r.em # e)

\* the body invocations of emitter e
CallsOf(e) == SelectSeq(calls, LAMBDA c : c.em = e)

\* the invocation raised a failure (an Exception)
Failed(c) == c.o.kind = "raise" /\ c.o.exc = "Exception"

\* the text begins with the sentinel prefix
IsStub(text) == text # <<>> /\ text[1] = StubPrefix

IsFixed(em) == em.enumerator = "None"
IsEnumerated(em) == em.enumerator \in EnumNames

\* C1: for every emitter that run_scope is done with, and so at its return for
\* every discovered emitter, outputs holds exactly one record if it has a fixed
\* path and exactly as many records as its enumerator yields key-sets if it is
\* templated, whatever the bodies did; no record belongs to anything else.
C1_RecordCount ==
    /\ \A e \in 1..ei :
        /\ IsFixed(emitters[e]) => Len(OutputsOf(e)) = 1
        /\ IsEnumerated(emitters[e]) =>
              Len(OutputsOf(e)) = Len(EnumCall(emitters[e].enumerator, sess))
    /\ \A i \in DOMAIN outputs : outputs[i].em \in 1..Len(emitters)
    /\ rpc = "returned" => ei = Len(emitters)

\* C1's case: run_scope has returned, a fixed-path body has raised, and so has
\* a body of a templated emitter with two key-sets or more
C1_Witness ==
    /\ rpc = "returned"
    /\ \E e \in DOMAIN emitters :
        IsFixed(emitters[e]) /\ \E i \in DOMAIN calls : calls[i].em = e /\ Failed(calls[i])
    /\ \E e \in DOMAIN emitters :
        /\ IsEnumerated(emitters[e])
        /\ Len(EnumCall(emitters[e].enumerator, sess)) >= 2
        /\ \E i \in DOMAIN calls : calls[i].em = e /\ Failed(calls[i])

\* the outcomes of the run's invocations, those of emitter f replaced by a
\* body that returns text
OutcomesWithSucceeding(f) ==
    [p \in {<<calls[i].em, calls[i].k>> : i \in DOMAIN calls} |->
        IF p[1] = f THEN RetStr(<<"data\n">>)
        ELSE (CHOOSE c \in Range(calls) : c.em = p[1] /\ c.k = p[2]).o]

HasFailed(f) == \E i \in DOMAIN calls : calls[i].em = f /\ Failed(calls[i])

\* a failure of a body never makes run_scope raise
NoFailurePropagates ==
    rpc = "raised" => (calls = <<>> \/ ~Failed(calls[Len(calls)]))

\* the records of the emitters other than a failing one are those of the run
\* in which the failing one succeeded: same paths, texts and order
OthersUnchanged ==
    rpc = "returned" =>
        \A f \in DOMAIN emitters :
            HasFailed(f) =>
                OutputsBut(outputs, f) =
                    OutputsBut(RunScope(emitters, sess, OutcomesWithSucceeding(f)), f)

\* a failing fixed-path emitter contributes exactly one stub record, at the
\* path its decorator names
FixedStubAtLiteralPath ==
    \A f \in 1..ei :
        IsFixed(emitters[f]) /\ HasFailed(f) =>
            /\ Len(OutputsOf(f)) = 1
            /\ IsStub(OutputsOf(f)[1].text)
            /\ OutputsOf(f)[1].path = RawPath(emitters[f].path)

\* C2: a body that raises never makes run_scope raise and never changes the
\* records of any other emitter, and a failing fixed-path emitter contributes
\* exactly one stub record at its literal path.
C2_FaultIsolation == NoFailurePropagates /\ OthersUnchanged /\ FixedStubAtLiteralPath

\* what holds of C2: all of it but the path of the stub of a fixed-path emitter
\* whose path contains a brace
C2_IsolationOnly ==
    /\ NoFailurePropagates
    /\ OthersUnchanged
    /\ \A f \in 1..ei :
        IsFixed(emitters[f]) /\ HasFailed(f) =>
            /\ Len(OutputsOf(f)) = 1
            /\ IsStub(OutputsOf(f)[1].text)
            /\ (~HasBrace(emitters[f].path) =>
                    OutputsOf(f)[1].path = RawPath(emitters[f].path))

\* C3: when run_scope is done with a templated emitter whose enumerator yields
\* k1..kn, outputs holds n records for it, in yield order: record i is at the
\* rendered path of ki, and it is a stub if the body raised for ki and else
\* carries the text that the body returned for ki.
C3_PerKeyRecords ==
    \A e \in 1..ei :
        IsEnumerated(emitters[e]) =>
            LET kss == EnumCall(emitters[e].enumerator, sess)
                recs == OutputsOf(e)
                cs == CallsOf(e)
            IN /\ Len(recs) = Len(kss)
               /\ Len(cs) = Len(kss)
               /\ \A k \in DOMAIN kss :
                    /\ cs[k].k = k
                    /\ recs[k].path = SafeFormatPath(emitters[e].path, kss[k])
                    /\ IF Failed(cs[k]) THEN IsStub(recs[k].text)
                       ELSE recs[k].text = BodyText(cs[k].o)

\* C3's case: the enumerator yields cpu 0 and cpu 1, the body returns text for
\* cpu 0 and raises for cpu 1, and both records are there
C3_Witness ==
    /\ rpc = "returned"
    /\ \E e \in DOMAIN emitters :
        /\ EnumCall(emitters[e].enumerator, sess) = <<KeySet("cpu", 0), KeySet("cpu", 1)>>
        /\ ~FormatFails(emitters[e].path, KeySet("cpu", 1))
        /\ Len(CallsOf(e)) = 2
        /\ CallsOf(e)[1].o = RetStr(<<"data\n">>)
        /\ Failed(CallsOf(e)[2])
        /\ Len(OutputsOf(e)) = 2
        /\ ~IsStub(OutputsOf(e)[1].text)
        /\ IsStub(OutputsOf(e)[2].text)

\* C4: every record that run_scope creates because of a failure, a body that
\* raised or an enumerator that is missing, has a text that begins with the
\* sentinel prefix; and while every body raises, run_scope on a valid scope
\* never raises and is never stuck before its return.
C4_StubSentinel ==
    /\ \A e \in DOMAIN emitters :
        LET recs == OutputsOf(e)
            cs == CallsOf(e)
        IN /\ (~IsFixed(emitters[e]) /\ ~IsEnumerated(emitters[e])) =>
                  \A i \in DOMAIN recs : IsStub(recs[i].text)
           /\ \A i \in DOMAIN recs :
                  (i \in DOMAIN cs /\ Failed(cs[i])) => IsStub(recs[i].text)
    /\ (scope \in ValidScopes /\ \A i \in DOMAIN calls : Failed(calls[i])) =>
          /\ rpc # "raised"
          /\ rpc # "returned" => ENABLED NextScope

\* C4's case: run_scope has returned from a scope in which every body raised,
\* with a stub for a body and a stub for a missing enumerator
C4_Witness ==
    /\ rpc = "returned"
    /\ Len(calls) >= 2
    /\ \A i \in DOMAIN calls : Failed(calls[i])
    /\ \E e \in DOMAIN emitters :
          ~IsFixed(emitters[e]) /\ ~IsEnumerated(emitters[e]) /\ Len(OutputsOf(e)) = 1
    /\ \A i \in DOMAIN outputs : IsStub(outputs[i].text)

(***************************************************************************)
(* Claims about the plugin selection, checked under SpecSelect.            *)
(***************************************************************************)
\* the plugin name is given in a list of names of the command line
NamedIn(raws, n) == \E r \in raws : r[1] = n

InOnly(n) == NamedIn(opts.only_plugins, n) \/ NamedIn(opts.plugins, n)
InSkip(n) == NamedIn(opts.skip_plugins, n)
InEnable(n) == NamedIn(opts.enable_plugins, n)
OnlyGiven == opts.only_plugins # {} \/ opts.plugins # {}

\* the outcome that the method has recorded for a plugin
Selected(n) == \E i \in DOMAIN loaded : loaded[i].name = n
SkippedWith(n, reason) == \E i \in DOMAIN skipped : skipped[i] = <<n, reason>>
Skipped(n) == \E i \in DOMAIN skipped : skipped[i][1] = n

IsSelected(n) == Selected(n) /\ ~Skipped(n)
IsSkipped(n, reason) ==
    /\ ~Selected(n)
    /\ \A i \in DOMAIN skipped : skipped[i][1] = n => skipped[i][2] = reason
    /\ SkippedWith(n, reason)

\* the four gates of the reference rule, in order
Gates(c) ==
    << [hit |-> OnlyGiven /\ ~InOnly(c.name), reason |-> "not specified"],
       [hit |-> InSkip(c.name), reason |-> "skipped"],
       [hit |-> c.experimental /\ ~opts.experimental
                    /\ ~InEnable(c.name) /\ ~InOnly(c.name),
        reason |-> "experimental"],
       [hit |-> ~c.default_enabled /\ ~InEnable(c.name) /\ ~InOnly(c.name),
        reason |-> "optional"] >>

\* the first gate that matches
FirstGate(c) ==
    LET hits == {g \in DOMAIN Gates(c) : Gates(c)[g].hit}
    IN IF hits = {} THEN 0 ELSE SetMin(hits)

\* C5: the recorded outcome of every discovered plugin is that of the reference
\* rule: Skipped with the reason of the first gate that matches, Selected when
\* none does. So with only=[], skip=[plugin_b], enable=[] and the flag unset,
\* plugin_a is Selected, plugin_b Skipped 'skipped', and an experimental
\* plugin_c Skipped 'experimental'.
C5_SelectionRule ==
    /\ \A i \in DOMAIN classes :
        LET c == classes[i]
            g == FirstGate(c)
        IN IF g = 0 THEN IsSelected(c.name) ELSE IsSkipped(c.name, Gates(c)[g].reason)
    /\ ( /\ dpc = "done"
         /\ opts = [only_plugins |-> {}, plugins |-> {}, skip_plugins |-> {<<"plugin_b">>},
                    enable_plugins |-> {}, experimental |-> FALSE]
         /\ classes = <<PluginClass("plugin_a", FALSE, TRUE),
                        PluginClass("plugin_b", FALSE, TRUE),
                        PluginClass("plugin_c", TRUE, TRUE)>> )
       => /\ IsSelected("plugin_a")
          /\ IsSkipped("plugin_b", "skipped")
          /\ IsSkipped("plugin_c", "experimental")

\* C5's case: the scenario has run to its end, with its outcome
C5_Witness ==
    /\ dpc = "done"
    /\ opts = [only_plugins |-> {}, plugins |-> {}, skip_plugins |-> {<<"plugin_b">>},
               enable_plugins |-> {}, experimental |-> FALSE]
    /\ classes = <<PluginClass("plugin_a", FALSE, TRUE),
                   PluginClass("plugin_b", FALSE, TRUE),
                   PluginClass("plugin_c", TRUE, TRUE)>>
    /\ [i \in DOMAIN loaded |-> loaded[i].name] = <<"plugin_a">>
    /\ skipped = <<<<"plugin_b", "skipped">>, <<"plugin_c", "experimental">>>>

\* C6: a discovered plugin named in only is Selected unless it is named in
\* skip too, whatever its attributes, and if it is, it is Skipped 'skipped'.
C6_OnlySelectsSkipDominates ==
    \A i \in DOMAIN classes :
        LET n == classes[i].name
        IN InOnly(n) => IF InSkip(n) THEN IsSkipped(n, "skipped") ELSE IsSelected(n)

\* C6's case: an experimental, default-disabled plugin named in only is
\* selected with the flag unset, and a plugin named in only and in skip is
\* skipped
C6_Witness ==
    /\ dpc = "done"
    /\ ~opts.experimental
    /\ \E i \in DOMAIN classes :
        /\ classes[i].experimental /\ ~classes[i].default_enabled
        /\ InOnly(classes[i].name) /\ ~InSkip(classes[i].name)
        /\ IsSelected(classes[i].name)
    /\ \E i \in DOMAIN classes :
        /\ InOnly(classes[i].name) /\ InSkip(classes[i].name)
        /\ IsSkipped(classes[i].name, "skipped")

\* the case of C7: an experimental plugin, the flag unset, the plugin named
\* neither in enable nor in only
ExperimentalGated(c) ==
    c.experimental /\ ~opts.experimental /\ ~InEnable(c.name) /\ ~InOnly(c.name)

\* C7 as claimed: such a plugin is always Skipped with reason 'experimental'.
C7_AlwaysExperimental ==
    \A i \in DOMAIN classes :
        ExperimentalGated(classes[i]) => IsSkipped(classes[i].name, "experimental")

\* C7, amended: such a plugin is never Selected; it is Skipped, with reason
\* 'not specified' if only is not empty, else 'skipped' if it is named in
\* skip, and else 'experimental'.
C7_ExperimentalNeverSelected ==
    \A i \in DOMAIN classes :
        ExperimentalGated(classes[i]) =>
            IsSkipped(classes[i].name,
                      IF OnlyGiven THEN "not specified"
                      ELSE IF InSkip(classes[i].name) THEN "skipped"
                      ELSE "experimental")

\* C7's case: one such plugin is skipped as experimental and another one, named
\* in skip, as skipped
C7_Witness ==
    /\ dpc = "done"
    /\ \E i \in DOMAIN classes :
        ExperimentalGated(classes[i]) /\ IsSkipped(classes[i].name, "experimental")
    /\ \E i \in DOMAIN classes :
        ExperimentalGated(classes[i]) /\ IsSkipped(classes[i].name, "skipped")

\* C8: with only empty, a discovered plugin named in enable and not in skip is
\* Selected, also when it is experimental with the flag unset and when its
\* default_enabled is false.
C8_EnableOverrides ==
    \A i \in DOMAIN classes :
        LET n == classes[i].name
        IN (~OnlyGiven /\ InEnable(n) /\ ~InSkip(n)) => IsSelected(n)

\* C8's case: an experimental, default-disabled plugin named in enable is
\* selected with the flag unset and only empty
C8_Witness ==
    /\ dpc = "done"
    /\ ~opts.experimental
    /\ ~OnlyGiven
    /\ \E i \in DOMAIN classes :
        /\ classes[i].experimental /\ ~classes[i].default_enabled
        /\ InEnable(classes[i].name)
        /\ IsSelected(classes[i].name)

\* C9: when only, the names of the legacy plugins option included, is not
\* empty, a discovered plugin outside it is never Selected, not even when it is
\* named in enable: it is Skipped 'not specified'.
C9_OnlyIsSoleGate ==
    OnlyGiven =>
        \A i \in DOMAIN classes :
            ~InOnly(classes[i].name) => IsSkipped(classes[i].name, "not specified")

\* C9's case: only the legacy option names a plugin, and a plugin outside it
\* that enable names is skipped as not specified
C9_Witness ==
    /\ dpc = "done"
    /\ opts.only_plugins = {}
    /\ opts.plugins # {}
    /\ \E i \in DOMAIN classes :
        /\ ~InOnly(classes[i].name)
        /\ InEnable(classes[i].name)
        /\ IsSkipped(classes[i].name, "not specified")

\* the number of unknown-name warnings about a name
NotFoundWarnings(n) ==
    Cardinality({i \in DOMAIN warnings : warnings[i] = Warning("not found", n)})

\* the names that the options give
NamesGiven ==
    {r[1] : r \in opts.only_plugins \cup opts.plugins \cup opts.skip_plugins
                    \cup opts.enable_plugins}

\* C10: once the method is done, every name given in only, skip or enable that
\* is the name of no discovered plugin has exactly one unknown-name warning and
\* no other name has any; the selection is as it was before the warnings, and
\* the method is never stuck before its end.
C10_UnknownNamesWarned ==
    /\ dpc = "done" =>
        /\ \A n \in NamesGiven \ Range(discovered) : NotFoundWarnings(n) = 1
        /\ \A i \in DOMAIN warnings :
              warnings[i].kind = "not found" =>
                  warnings[i].name \in NamesGiven \ Range(discovered)
        /\ Len(loaded) + Len(skipped) = Len(discovered)
    /\ dpc # "done" => \A n \in Range(NameOrder) : NotFoundWarnings(n) = 0
    /\ dpc # "done" => ENABLED NextSelect

\* C10's case: a name that is no plugin is given in two options and warned
\* about once, and a discovered plugin is named and not warned about
C10_Witness ==
    /\ dpc = "done"
    /\ <<"nosuch">> \in opts.skip_plugins \cap opts.enable_plugins
    /\ NotFoundWarnings("nosuch") = 1
    /\ \E n \in NamesGiven : n \in Range(discovered) /\ NotFoundWarnings(n) = 0

(***************************************************************************)
(* The retired plugin module.                                              *)
(***************************************************************************)
\* C11: a retired plugin module (sched_debug) is never selected and never
\* recorded as skipped, whatever the options name, and once the method is
\* done a retired name given in only, skip or enable has been warned about
\* as not found.
C11_RetiredNeverSelected ==
    \A r \in RetiredModules :
        /\ ~Selected(r)
        /\ ~Skipped(r)
        /\ r \notin Range(discovered)
        /\ (dpc = "done" /\ (InOnly(r) \/ InSkip(r) \/ InEnable(r)))
              => NotFoundWarnings(r) = 1

\* the method is done, sched_debug was named in only and in enable
C11_Witness ==
    /\ dpc = "done"
    /\ InOnly("sched_debug") /\ InEnable("sched_debug")
    /\ NotFoundWarnings("sched_debug") = 1
    /\ ~Selected("sched_debug") /\ ~Skipped("sched_debug")
    /\ Len(skipped) = 3

(***************************************************************************)
(* Claims about execute and _run_plugins, checked under SpecRun.           *)
(***************************************************************************)
\* the positions of execute inside the loop of _run_plugins
PluginPhases == {"plugins", "check_enabled", "setup", "collect"}

\* the plugins started so far, in order: those whose constructor was called
Started ==
    LET inits == SelectSeq(hooks, LAMBDA c : c.hook = "__init__") IN
    [i \in DOMAIN inits |-> inits[i].plugin]

LoadedNames == [i \in DOMAIN loaded |-> loaded[i].name]

HookCalled(p, h) == \E i \in DOMAIN hooks : hooks[i] = HookCall(p, h)

IsPrefix(a, b) == Len(a) <= Len(b) /\ SubSeq(b, 1, Len(a)) = a

\* this step is a call of hook h that raises e
Raised(h, e) ==
    /\ xpc \in PluginPhases /\ pidx < Len(loaded)
    /\ hooks' = Append(hooks, HookCall(CurrentPlugin, h))
    /\ last'.out = HookRaise(e)

\* an error that is neither a fatal filesystem error nor a cancellation
Degraded(e) == IsException(e) /\ ~IsFatalFs(e)

\* this step is a constructor, setup or collect that raises such an error
PluginFails ==
    \E h \in {"__init__", "setup", "collect"}, e \in Errors : Degraded(e) /\ Raised(h, e)

\* the loop is over: _finalize is about to be called, or has been
PluginsDone == xpc = "finalize" \/ (xpc = "terminated" /\ term.phase = "finalize")

\* C12: when the constructor, setup or collect of a selected plugin raises
\* an error that is neither a fatal filesystem error nor a cancellation,
\* the loop goes on with the next plugin and the records in the working
\* directory are the same; records are only ever added while the loop
\* runs; only a fatal filesystem error or a cancellation ends the run
\* inside the loop, which always has a next step; at the head of the loop
\* the next step starts the next selected plugin, or calls _finalize when
\* none is left (or is a cancellation); and _finalize is reached with all
\* the selected plugins started, in order.
C12_FailureContained ==
    /\ [][PluginFails =>
            /\ xpc' = "plugins" /\ pidx' = pidx + 1
            /\ records' = records
            /\ term' = Running
            /\ loaded' = loaded]_vars
    /\ [][(xpc \in PluginPhases /\ xpc' # "terminated") => IsPrefix(records, records')]_vars
    /\ [](xpc \in PluginPhases => IsPrefix(Started, LoadedNames))
    /\ []((xpc = "terminated" /\ term.phase \in PluginPhases)
            => (term.exc = KeyboardInterrupt \/ IsFatalFs(term.exc)))
    /\ [](PluginsDone => Started = LoadedNames)
    /\ [](xpc \in PluginPhases => ENABLED NextRun)
    /\ [][(xpc = "plugins" /\ pidx < Len(loaded)) =>
            \/ Started' = Append(Started, LoadedNames[pidx + 1])
            \/ (xpc' = "terminated" /\ term'.exc = KeyboardInterrupt)]_vars
    /\ [][(xpc = "plugins" /\ pidx = Len(loaded)) =>
            \/ xpc' = "finalize"
            \/ (xpc' = "terminated" /\ term'.exc = KeyboardInterrupt)]_vars

\* plugin_a wrote a record, the setup of plugin_b raised, plugin_c was
\* started and has collected, and the loop is over
C12_Witness ==
    /\ xpc = "finalize"
    /\ Started = <<"plugin_a", "plugin_b", "plugin_c">>
    /\ HookCalled("plugin_b", "setup") /\ ~HookCalled("plugin_b", "collect")
    /\ ~Skipped("plugin_b")
    /\ HookCalled("plugin_c", "collect")
    /\ RecordsOf(records, "plugin_a") # <<>>

\* this step is a check_enabled that returns false, or raises an error
CheckRejects ==
    /\ xpc = "check_enabled"
    /\ hooks' = Append(hooks, HookCall(CurrentPlugin, "check_enabled"))
    /\ \/ last'.out = HookReturn("False")
       \/ last'.out.ret = "raise" /\ IsException(last'.out.exc)

\* C13: when the check_enabled of a selected plugin returns false or raises
\* an error, the plugin is recorded as skipped with reason 'inactive' and
\* the loop goes on with the next plugin; the setup and the collect of a
\* plugin recorded as inactive are never called, and a setup or collect is
\* only ever called after the plugin's check_enabled.
C13_InactivePlugin ==
    /\ [][CheckRejects =>
            /\ skipped' = Append(skipped, <<CurrentPlugin, "inactive">>)
            /\ xpc' = "plugins" /\ pidx' = pidx + 1
            /\ term' = Running
            /\ records' = records]_vars
    /\ [](\A p \in Range(PluginNamespace) :
            SkippedWith(p, "inactive")
                => (~HookCalled(p, "setup") /\ ~HookCalled(p, "collect")))
    /\ [](\A p \in Range(PluginNamespace) :
            (HookCalled(p, "setup") \/ HookCalled(p, "collect"))
                => HookCalled(p, "check_enabled"))
    /\ [][(xpc = "plugins" /\ pidx < Len(loaded)) =>
            \/ hooks' = Append(hooks, HookCall(LoadedNames[pidx + 1], "__init__"))
            \/ (xpc' = "terminated" /\ term'.exc = KeyboardInterrupt)]_vars

\* the check of plugin_a has raised, plugin_a is inactive, and the loop is
\* at its head with plugin_b to run
C13_Witness ==
    /\ xpc = "plugins"
    /\ last = LastCall("plugin_a", "check_enabled", HookRaise(Exception))
    /\ skipped = <<<<"plugin_a", "inactive">>>>
    /\ hooks = <<HookCall("plugin_a", "__init__"), HookCall("plugin_a", "check_enabled")>>
    /\ pidx = 1 /\ LoadedNames = <<"plugin_a", "plugin_b">>

\* this step is a call of the constructor or of a hook, one of hs, that
\* raises a fatal filesystem error
FatalRaisedIn(hs) == \E h \in hs, e \in Errors : IsFatalFs(e) /\ Raised(h, e)

\* the step ends the run at once, with a non-zero status and no cleanup,
\* and leaves the records in the working directory
EndsAtOnce ==
    /\ xpc' = "terminated"
    /\ term'.how \in {"exit", "os_exit"} /\ term'.status # 0
    /\ IsFatalFs(term'.exc)
    /\ cleaned' = cleaned /\ ~cleaned'
    /\ records' = records
    /\ package' = NoPackage
    /\ pidx' = pidx /\ skipped' = skipped

\* C14: a fatal filesystem error (OSError with errno ENOSPC or EROFS) raised
\* while a plugin runs, in its constructor or in any of its hooks, ends the
\* run in that step with a non-zero exit status, without cleanup and with
\* the records written before it still in the working directory; nothing
\* happens after the end of the run: no plugin is started, no finalize.
C14_FatalTerminates ==
    /\ [][FatalRaisedIn({"__init__", "check_enabled", "setup", "collect"})
            => EndsAtOnce]_vars
    /\ [][xpc # "terminated"]_vars

\* the part of C14 that holds: the same for a fatal filesystem error that
\* reaches the handlers of the loop, from the constructor, setup or collect
C14_FatalFromHandlers ==
    /\ [][FatalRaisedIn({"__init__", "setup", "collect"}) => EndsAtOnce]_vars
    /\ [][xpc # "terminated"]_vars
    /\ [](term.how = "os_exit" => (~cleaned /\ package = NoPackage /\ term.status = 1))

\* C15: a fatal filesystem error raised from any of the three hooks of a
\* plugin, check_enabled, setup or collect, ends the run in that step: the
\* plugin is not recorded as inactive or failed, the loop does not go on.
C15_FatalPromoted ==
    [][FatalRaisedIn({"check_enabled", "setup", "collect"}) =>
            /\ xpc' = "terminated"
            /\ term'.status # 0
            /\ ~SkippedWith(CurrentPlugin, "inactive")'
            /\ runlog' = runlog \o <<LogEntry("error", "while running plugin"),
                                     LogEntry("error", "Data collected still available")>>]_vars

\* C16: when opening the Package fails, with a fatal filesystem error or
\* with any other error, that step ends the run with a non-zero exit
\* status; without an initialized Package the session is never opened and
\* no plugin is discovered or run.
C16_ArchiveFailureAborts ==
    /\ [][(xpc = "archive" /\ archive' # "initialized") =>
            /\ xpc' = "terminated"
            /\ term'.how \in {"exit", "raise"} /\ term'.status # 0]_vars
    /\ [](archive # "initialized" =>
            /\ drgn_prog = "none"
            /\ dpc = "idle"
            /\ hooks = <<>>)

\* the phases of execute
Phases == {"validate", "archive", "drgn", "discover", "finalize"} \cup PluginPhases

\* this step raises a KeyboardInterrupt: in a hook of a plugin, or in any
\* other call of a phase
CancelRaised ==
    \/ \E h \in {"__init__", "check_enabled", "setup", "collect"} :
            Raised(h, KeyboardInterrupt)
    \/ term'.exc = KeyboardInterrupt

\* C17: a KeyboardInterrupt can be raised in every phase of execute, and
\* the step in which it is raised calls cleanup (the temporary state, the
\* working directory with it, is removed) and ends the run with exit
\* status 130; a run that ends with status 130 is a cancelled one.
C17_CancelExits130 ==
    /\ [][CancelRaised =>
            /\ xpc' = "terminated"
            /\ term' = Ended("exit", 130, FALSE, KeyboardInterrupt, xpc)
            /\ cleaned' /\ records' = <<>>
            /\ package' = NoPackage]_vars
    /\ [](xpc \in Phases => ENABLED (NextRun /\ term'.exc = KeyboardInterrupt))
    /\ []((xpc = "terminated" /\ term.status = 130) => term.exc = KeyboardInterrupt)
    /\ [](xpc \in Phases \cup {"terminated"})

\* the run was cancelled in _finalize, after a plugin had written a record
C17_Witness ==
    /\ xpc = "terminated"
    /\ term = Ended("exit", 130, FALSE, KeyboardInterrupt, "finalize")
    /\ cleaned /\ records = <<>>
    /\ HookCalled("plugin_a", "collect")
    /\ last.out = HookReturn("ok")

\* C18: a KeyboardInterrupt raised by the check_enabled, setup or collect of
\* a plugin ends the run in that step: the plugin is not recorded as
\* inactive and no failure of it is logged, the loop does not advance, no
\* Package is produced; and nothing happens after the end of a run, so no
\* later plugin is started and _finalize is not called.
C18_CancelInPlugin ==
    /\ [][(\E h \in {"check_enabled", "setup", "collect"} : Raised(h, KeyboardInterrupt)) =>
            /\ xpc' = "terminated"
            /\ term'.exc = KeyboardInterrupt /\ term'.phase = xpc
            /\ skipped' = skipped
            /\ runlog' = Append(runlog, LogEntry("error", "Exiting on user cancel"))
            /\ pidx' = pidx
            /\ package' = NoPackage]_vars
    /\ [][xpc = "terminated" => FALSE]_vars
    /\ []((/\ xpc = "terminated" /\ term.exc = KeyboardInterrupt
            /\ term.phase \in {"check_enabled", "setup", "collect"}) =>
            /\ package = NoPackage
            /\ Len(Started) = pidx + 1
            /\ last.plugin = Started[pidx + 1]
            /\ ~Skipped(last.plugin))

\* the collect of plugin_a was cancelled with plugin_b still to run
C18_Witness ==
    /\ xpc = "terminated"
    /\ term.exc = KeyboardInterrupt /\ term.phase = "collect"
    /\ last = LastCall("plugin_a", "collect", HookRaise(KeyboardInterrupt))
    /\ LoadedNames = <<"plugin_a", "plugin_b">>
    /\ Started = <<"plugin_a">>
    /\ skipped = <<<<"plugin_c", "optional">>>>
    /\ package = NoPackage

(***************************************************************************)
(* Validation of the inputs.                                               *)
(***************************************************************************)
\* the required snapshot path is empty or does not exist
BadVmcore == cmdline.vmcore = "" \/ ~Exists(cmdline.vmcore)

\* nothing after validation has happened
NothingOpened ==
    /\ xpc \in {"validate", "terminated"}
    /\ archive = "none"
    /\ drgn_prog = "none"
    /\ dpc = "idle" /\ discovered = <<>> /\ loaded = <<>>
    /\ hooks = <<>>
    /\ package = NoPackage

\* C19 as stated: with an empty or missing snapshot path the run ends with
\* a non-zero exit status after cleanup, and the Package is never created,
\* the session never opened, no plugin discovered or run.
C19_MissingVmcoreCleanup ==
    BadVmcore =>
        /\ NothingOpened
        /\ xpc = "terminated" => (term.how = "exit" /\ term.status # 0 /\ cleaned)

\* C19 amended: with an empty or missing snapshot path the Package is never
\* created, the session never opened, no plugin discovered or run, and the
\* run ends in validation: cancelled (status 130, cleanup), or else by the
\* error, which under --debug leaves execute with no cleanup and otherwise
\* gives exit status 1, after cleanup unless SOS_TEST_LOGS is 'keep'.
C19_MissingVmcoreAborts ==
    BadVmcore =>
        /\ NothingOpened
        /\ xpc = "terminated" =>
            /\ term.phase = "validate"
            /\ \/ term = Ended("exit", 130, FALSE, KeyboardInterrupt, "validate") /\ cleaned
               \/ /\ term.exc = Exception
                  /\ runlog = <<LogEntry("error", ValidateError(cmdline))>>
                  /\ IF cmdline.debug
                     THEN term.how = "raise" /\ ~cleaned
                     ELSE /\ term.how = "exit" /\ term.status = 1
                          /\ cleaned = ~environ.keep_logs

\* the snapshot does not exist: the run has ended with status 1 after cleanup
C19_Witness ==
    /\ cmdline.vmcore = "missing"
    /\ xpc = "terminated"
    /\ term = Ended("exit", 1, FALSE, Exception, "validate")
    /\ runlog = <<LogEntry("error", "vmcore not found")>>
    /\ cleaned
    /\ NothingOpened

\* this step is _validate_inputs, on a snapshot path that exists
ValidatesGoodVmcore == xpc = "validate" /\ ~BadVmcore /\ term'.exc # KeyboardInterrupt

\* the step gives one warning for each debuginfo directory that is none and
\* goes on to the opening of the Package
OnlyWarns ==
    /\ xpc' = "archive"
    /\ term' = Running
    /\ runlog' = runlog \o ValidateWarnings(cmdline)
    /\ \A i \in DOMAIN runlog' : runlog'[i].level = "warning"
    /\ Len(runlog') = Cardinality({i \in DOMAIN cmdline.debuginfo_dirs :
                                        ~IsDir(cmdline.debuginfo_dirs[i])})

\* C20 as stated: an auxiliary symbol-data file (vmlinux) or a symbol-data
\* search directory that is missing gives only a warning in validation,
\* and the run goes on to open the Package.
C20_OptionalPathsWarnOnly == [][ValidatesGoodVmcore => OnlyWarns]_vars

\* C20 amended: a symbol-data search directory that is missing or no
\* directory gives only a warning in validation, one each, and the run goes
\* on to open the Package, which it can; a vmlinux that is given and does
\* not exist is an error that ends the run in validation, as a missing
\* snapshot does.
C20_SearchDirsWarnOnly ==
    /\ [][ValidatesGoodVmcore =>
            IF cmdline.vmlinux = "" \/ Exists(cmdline.vmlinux)
            THEN OnlyWarns
            ELSE /\ xpc' = "terminated"
                 /\ term'.exc = Exception /\ term'.phase = "validate"
                 /\ runlog' = <<LogEntry("error", "vmlinux not found")>>
                 /\ archive' = "none" /\ drgn_prog' = "none"]_vars
    /\ [](xpc = "archive" => ENABLED PrepareArchive)
    /\ []((cmdline.vmlinux = "missing" /\ ~BadVmcore) => NothingOpened)

\* validation has warned about the directory that is none and has gone on
C20_Witness ==
    /\ xpc = "archive"
    /\ cmdline.debuginfo_dirs = <<"nodir", "debugdir">>
    /\ runlog = <<LogEntry("warning", "Ignoring non-directory --debuginfo-dir")>>
    /\ term = Running

(***************************************************************************)
(* The opening of the introspection session.                               *)
(***************************************************************************)
\* the messages of the failures of _init_drgn
InitDrgnMessages ==
    {"Failed to import drgn context", "drgn is not installed",
     "Failed to initialize drgn program"}

\* this step is _init_drgn raising
InitDrgnFails == xpc = "drgn" /\ xpc' = "terminated" /\ term'.exc = Exception

\* C21: when the construction of the session fails, no plugin is discovered
\* or run and the run ends with a non-zero status; the message 'drgn is not
\* installed' is given when and only when the backend is what is missing
\* (build_program's import of drgn failed), and it is the message of no
\* other failure.
C21_SessionFailureAborts ==
    /\ [][InitDrgnFails =>
            /\ term'.status # 0 /\ term'.how \in {"exit", "raise"}
            /\ drgn_prog' = "none"
            /\ \E m \in InitDrgnMessages :
                /\ runlog' = Append(runlog, LogEntry("error", m))
                /\ m = "drgn is not installed" => environ.drgn = "missing"
                /\ (environ.drgn = "missing" /\ m # "Failed to import drgn context")
                      => m = "drgn is not installed"]_vars
    /\ []((xpc = "terminated" /\ term.phase = "drgn") =>
            /\ drgn_prog = "none"
            /\ dpc = "idle" /\ discovered = <<>> /\ loaded = <<>>
            /\ hooks = <<>>
            /\ package = NoPackage
            /\ term.status # 0)
    /\ [][xpc = "terminated" => FALSE]_vars

\* the backend is missing, and the run has ended on its own message
C21_Witness ==
    /\ environ.drgn = "missing"
    /\ xpc = "terminated" /\ term.phase = "drgn"
    /\ term = Ended("exit", 1, FALSE, Exception, "drgn")
    /\ runlog[Len(runlog)] = LogEntry("error", "drgn is not installed")
    /\ hooks = <<>> /\ discovered = <<>>

(***************************************************************************)
(* _finalize: the checksum, the relocation, the manifest, the two paths.   *)
(***************************************************************************)
\* what the log holds after a failure of the checksum or of a relocation
ChecksumFailures ==
    {LogEntry("exception", "Error generating checksum"),
     LogEntry("exception", "Error writing checksum file"),
     LogEntry("print", "Error generating archive checksum after archive creation.")}

RelocationFailures ==
    {LogEntry("print", "Error moving archive file"),
     LogEntry("print", "Error moving directory"),
     LogEntry("print", "Error moving checksum file")}

Logged(entries) == \E i \in DOMAIN runlog : runlog[i] \in entries

\* the artifact of the run exists, in the working area or in sys_tmp
OutputExists == package.kind \in {"tarball", "directory"} /\ package.at \in {"tmpdir", "sys_tmp"}

\* C22: when the run has ended after a failure of the checksum computation,
\* of the checksum write or of a relocation, the archive or the directory
\* that was produced still exists, in the working area or at its final
\* location.
C22_OutputNotErased ==
    (xpc = "terminated" /\ Logged(ChecksumFailures \cup RelocationFailures)) => OutputExists

\* the same for every such failure but that of get_preferred_hash_name
C22_OtherFailuresKeepOutput ==
    (/\ xpc = "terminated"
     /\ Logged(ChecksumFailures \cup RelocationFailures)
     /\ ~Logged({LogEntry("print", "Error generating archive checksum after archive creation.")}))
        => OutputExists

\* this step is _finalize, in which the manifest was not written
ManifestFailed ==
    /\ xpc = "finalize"
    /\ Len(runlog') > Len(runlog)
    /\ runlog'[Len(runlog) + 1] = LogEntry("warning", "Failed writing manifest")

\* the same behaviour of the collaborators, but for a manifest that is written
ManifestOk(env) == [env EXCEPT !.manifest = "ok"]

\* C23: a manifest that cannot be written gives a warning and nothing else:
\* whatever the other collaborators do, _finalize ends as it does when the
\* manifest is written, with the same log after the warning and the same
\* artifact (logs attached, compressed or preserved, checksum, location)
\* but for the manifest in it.
C23_ManifestFailureWarns ==
    /\ [](xpc = "finalize" =>
            \A env \in FinalizeOutcomes :
                env.manifest = "fails" =>
                    LET r == FinalizeEnd(env)
                        ok == FinalizeEnd(ManifestOk(env)) IN
                    /\ r.end = ok.end /\ r.msg = ok.msg
                    /\ r.entries = <<LogEntry("warning", "Failed writing manifest")>>
                                       \o ok.entries
                    /\ r.pkg = IF ok.pkg = NoPackage THEN NoPackage
                               ELSE [ok.pkg EXCEPT !.manifest = FALSE]
                    /\ r.pkg # NoPackage => r.pkg.logs)
    /\ [][ManifestFailed =>
            /\ xpc' = "terminated"
            /\ package' # NoPackage =>
                /\ package'.logs /\ ~package'.manifest
                /\ package'.kind = IF cmdline.build THEN "directory" ELSE "tarball"]_vars

\* the manifest was not written, and the tarball with the logs and its
\* checksum is in sys_tmp
C23_Witness ==
    /\ xpc = "terminated"
    /\ term = Ended("return", 0, TRUE, NoError, "finalize")
    /\ runlog[Len(runlog)] = LogEntry("warning", "Failed writing manifest")
    /\ package.kind = "tarball" /\ package.at = "sys_tmp"
    /\ package.logs /\ ~package.manifest
    /\ package.checksum = "sys_tmp"
    /\ package.records # <<>>

\* what this step has logged
LoggedInStep(entries) ==
    \E i \in (Len(runlog) + 1)..Len(runlog') : runlog'[i] \in entries

PackagingFailures ==
    {LogEntry("print", "while finalizing archive"),
     LogEntry("print", "Creating archive tarball failed.")}

\* this step is _finalize without --build, and archive.finalize has
\* returned the tarball
PackagingSucceeded ==
    /\ xpc = "finalize" /\ ~cmdline.build
    /\ ~LoggedInStep(PackagingFailures)
    /\ \/ term'.how = "return"
       \/ LoggedInStep({LogEntry("print",
                                 "Error generating archive checksum after archive creation.")})

Slots(ems, s) ==
    Flatten([e \in DOMAIN ems |->
                IF IsEnumerated(ems[e])
                THEN [k \in 1..Len(EnumCall(ems[e].enumerator, s)) |-> <<e, k>>]
                ELSE <<<<e, 0>>>>])

\* the invocation of the body for a place
CallAt(sl) == CHOOSE c \in Range(calls) : c.em = sl[1] /\ c.k = sl[2]

\* C25: the records are in discovery order (modules in iteration order,
\* their emitters in definition order), those of a templated emitter next
\* to each other in the order its enumerator yields the key-sets; record i
\* is the record of place i, be it the text the body returned or, when the
\* body raised, the stub.
C25_OutputOrder ==
    /\ (rpc \notin {"start", "idle"} /\ scope \in ValidScopes)
          => emitters = CollectEmitters(pkgModules)
    /\ Len(outputs) <= Len(Slots(emitters, sess))
    /\ rpc = "returned" => Len(outputs) = Len(Slots(emitters, sess))
    /\ \A i \in DOMAIN outputs :
        LET sl == Slots(emitters, sess)[i]
            em == emitters[sl[1]] IN
        /\ outputs[i].em = sl[1]
        /\ sl[2] > 0 =>
              outputs[i].path = SafeFormatPath(em.path, EnumCall(em.enumerator, sess)[sl[2]])
        /\ IF ~IsFixed(em) /\ ~IsEnumerated(em) THEN IsStub(outputs[i].text)
           ELSE /\ \E c \in Range(calls) : c.em = sl[1] /\ c.k = sl[2]
                /\ IF Failed(CallAt(sl)) THEN IsStub(outputs[i].text)
                   ELSE outputs[i].text = BodyText(CallAt(sl).o)
    /\ \A i, j \in DOMAIN outputs : i < j => outputs[i].em <= outputs[j].em

\* a templated emitter with two key-sets, the body raised for the first and
\* returned for the second, and the record of a later emitter follows
C25_Witness ==
    /\ rpc = "returned"
    /\ \E i \in DOMAIN outputs :
        /\ i + 2 \in DOMAIN outputs
        /\ outputs[i].em = outputs[i + 1].em /\ outputs[i + 1].em < outputs[i + 2].em
        /\ Slots(emitters, sess)[i][2] = 1
        /\ Failed(CallAt(Slots(emitters, sess)[i]))
        /\ IsStub(outputs[i].text)
        /\ ~Failed(CallAt(Slots(emitters, sess)[i + 1]))
        /\ ~IsStub(outputs[i + 1].text)

\* what the bodies did in this run, place by place
RunOutcomes ==
    [p \in {<<calls[i].em, calls[i].k>> : i \in DOMAIN calls} |-> CallAt(p).o]

IsMissingEnum(em) == ~IsFixed(em) /\ ~IsEnumerated(em)

\* C27: an emitter whose enumerator is not in _ENUMS does not make
\* run_scope raise: the step appends one stub, at the template with its
\* braces replaced, whose text names the enumerator; its body is never
\* invoked; and the loop goes on with the emitter after it, so that at the
\* return every emitter after it has its records.
C27_MissingEnumerator ==
    /\ [][(rpc = "loop" /\ ei < Len(emitters) /\ IsMissingEnum(emitters[ei + 1])) =>
            /\ rpc' = "loop" /\ ei' = ei + 1
            /\ calls' = calls
            /\ Len(outputs') = Len(outputs) + 1
            /\ SubSeq(outputs', 1, Len(outputs)) = outputs]_vars
    /\ [](\A e \in 1..ei :
            IsMissingEnum(emitters[e]) =>
                /\ Len(OutputsOf(e)) = 1
                /\ IsStub(OutputsOf(e)[1].text)
                /\ OutputsOf(e)[1].text =
                      FormatStub(<<"enumerator '", emitters[e].enumerator, "' not found">>)
                /\ emitters[e].enumerator \in Range(OutputsOf(e)[1].text)
                /\ OutputsOf(e)[1].path = ReplaceBraces(RawPath(emitters[e].path))
                /\ CallsOf(e) = <<>>)
    /\ []((rpc = "loop" /\ ei < Len(emitters)) =>
            ENABLED (RunFixed \/ MissingEnumerator \/ StartEnumeration))
    /\ []((rpc = "returned" /\ \E e \in DOMAIN emitters : IsMissingEnum(emitters[e])) =>
            \A f \in DOMAIN emitters :
                /\ IsFixed(emitters[f]) => Len(OutputsOf(f)) = 1
                /\ IsEnumerated(emitters[f]) =>
                      Len(OutputsOf(f)) = Len(EnumCall(emitters[f].enumerator, sess)))

\* the emitter of the missing enumerator came first, and the emitter after
\* it has its record
C27_Witness ==
    /\ rpc = "returned"
    /\ Len(emitters) = 2
    /\ emitters[1].enumerator = "enumerate_irqs"
    /\ Len(outputs) = 2
    /\ outputs[1].em = 1 /\ IsStub(outputs[1].text)
    /\ outputs[2].em = 2 /\ ~IsStub(outputs[2].text)
    /\ Len(calls) = 1 /\ calls[1].em = 2

\* this step invokes the body for a key-set that the template cannot be
\* rendered with
RenderFails ==
    /\ rpc = "keys" /\ ki < Len(keys)
    /\ FormatFails(emitters[ei + 1].path, keys[ki + 1])

\* C28: when the template cannot be rendered with a key-set, the body is
\* still invoked with that key-set, and unless it raises something that is
\* no Exception run_scope does not raise and appends exactly one record for
\* the key, at the template with every '{' and '}' replaced by '_'.
C28_RenderFailureSanitized ==
    [][RenderFails =>
        LET em == emitters[ei + 1] IN
        /\ Len(calls') = Len(calls) + 1
        /\ calls'[Len(calls')].em = ei + 1 /\ calls'[Len(calls')].k = ki + 1
        /\ ~Propagates(calls'[Len(calls')].o) =>
            /\ rpc' # "raised"
            /\ ki' = ki + 1
            /\ Len(outputs') = Len(outputs) + 1
            /\ SubSeq(outputs', 1, Len(outputs)) = outputs
            /\ outputs'[Len(outputs')].em = ei + 1
            /\ outputs'[Len(outputs')].path =
                  [i \in DOMAIN RawPath(em.path) |->
                      IF RawPath(em.path)[i] \in {"{", "}"} THEN "_" ELSE RawPath(em.path)[i]]
            /\ "{" \notin Range(outputs'[Len(outputs')].path)
            /\ "}" \notin Range(outputs'[Len(outputs')].path)
            /\ outputs'[Len(outputs')].text =
                  IF Failed(calls'[Len(calls')])
                  THEN FormatStub(<<"emitter error: ", calls'[Len(calls')].o.msg>>)
                  ELSE BodyText(calls'[Len(calls')].o)]_vars

\* the template {pid} was run with the key-sets of the cpus: one record for
\* each cpu, at the sanitized template
C28_Witness ==
    /\ rpc = "returned"
    /\ \E e \in DOMAIN emitters :
        /\ emitters[e].func = "produce_percpu"
        /\ Len(CallsOf(e)) = 2
        /\ Len(OutputsOf(e)) = 2
        /\ \A i \in 1..2 :
              OutputsOf(e)[i].path = <<"sos_commands/percpu/", "_", "pid", "_">>
        /\ ~IsStub(OutputsOf(e)[1].text)

(***************************************************************************)
(* Claims about enumerate_pids, checked under SpecEnum.                    *)
(***************************************************************************)
\* the pids of the key-sets yielded
YieldedPids == [i \in DOMAIN keys |-> keys[i]["pid"]]

\* the strategy that has produced the result
Strategy ==
    IF ~ForEachPidFalls(sess) THEN 1
    ELSE IF ~ForEachTaskFalls(sess) THEN 2
    ELSE 3

\* C29: whichever strategy produces them, the pids yielded are in strictly
\* ascending order, and so none is yielded twice; each key-set holds the
\* one key pid.
C29_PidsAscending ==
    rpc = "yielded" =>
        /\ \A i \in DOMAIN keys : DOMAIN keys[i] = {"pid"}
        /\ \A i, j \in DOMAIN keys : i < j => YieldedPids[i] < YieldedPids[j]
        /\ \A i, j \in DOMAIN keys : i # j => YieldedPids[i] # YieldedPids[j]

\* for_each_task has given pid 2 twice and before pid 1
C29_Witness ==
    /\ rpc = "yielded"
    /\ Strategy = 2
    /\ sess.tasks = <<Val(2), Val(1), Val(2)>>
    /\ YieldedPids = <<1, 2>>

\* the maximum that the session reports, or the default when it reports none
PidMaxOf(s) == IF s.pidMax.ok THEN s.pidMax.v ELSE PidMaxDefault

\* C30 as stated: every pid yielded is within 0 < pid <= pid_max, whichever
\* strategy has produced it.
C30_PidsWithinBound ==
    rpc = "yielded" =>
        \A i \in DOMAIN keys : 0 < YieldedPids[i] /\ YieldedPids[i] <= PidMaxOf(sess)

\* C30 amended: every pid yielded is positive; the pids of the first
\* strategy (for_each_pid) are also within pid_max, the maximum the session
\* reports or 1000000 when it reports none; the two fallbacks (for_each_task
\* and the init_task list) yield every positive pid they read, within that
\* bound or not.
C30_PidsPositiveFirstBounded ==
    rpc = "yielded" =>
        /\ \A i \in DOMAIN keys : 0 < YieldedPids[i]
        /\ Strategy = 1 =>
              /\ keys # <<>>
              /\ \A i \in DOMAIN keys : YieldedPids[i] <= PidMaxOf(sess)
        /\ Strategy = 2 =>
              Range(YieldedPids) =
                  {sess.tasks[i].v : i \in {j \in DOMAIN sess.tasks :
                                                sess.tasks[j].ok /\ sess.tasks[j].v > 0}}

\* for_each_pid has given a pid above pid_max and one within it
C30_Witness ==
    /\ rpc = "yielded"
    /\ Strategy = 1
    /\ sess.pidMax = Val(1)
    /\ sess.forEachPid = <<Val(2), Val(1)>>
    /\ YieldedPids = <<1>>

(***************************************************************************)
(* Claims about both enumerators, checked under SpecEnum.                  *)
(***************************************************************************)
\* the enumerator that has been run in this behaviour
EnumeratorRun == IF rpc \in {"enumerate", "yielded"} THEN "enumerate_pids" ELSE "enumerate_cpus"

\* the online-cpu mask strategy fails: the helper does not import, the mask
\* cannot be read, or the iteration raises
CpuMaskFails(s) == ~s.cpumaskImport \/ ~s.cpuMaskOk \/ Raises(s.cpuMask, s.cpuMaskFailAfter)

\* the i-th strategy of the enumerator failed or gave no usable value
StrategyFalls(name, i, s) ==
    IF name = "enumerate_pids"
    THEN IF i = 1 THEN ForEachPidFalls(s) ELSE ForEachTaskFalls(s)
    ELSE CpuMaskFails(s)

\* C31: neither enumerator ever raises. Whatever reads and helpers of the
\* session fail, the generator ends normally; the strategies it has tried are
\* the first ones of its fixed order, each one after the first was tried only
\* after the one before it had failed or given no usable value, and the
\* key-sets yielded are those of the strategies tried.
C31_EnumeratorsNeverRaise ==
    /\ rpc # "raised"
    /\ rpc \in {"yielded", "yielded_cpus"} =>
          LET run == EnumRun(EnumeratorRun, sess)
          IN /\ run.end = "return"
             /\ keys = run.keys
             /\ run.tried # <<>>
             /\ run.tried = [i \in 1..Len(run.tried) |-> i]
             /\ \A i \in 2..Len(run.tried) : StrategyFalls(EnumeratorRun, i - 1, sess)

\* every strategy of enumerate_pids has failed and nothing is yielded
C31_Witness ==
    /\ rpc = "yielded"
    /\ ~sess.pidImport
    /\ ~sess.taskImport
    /\ ~sess.initTaskOk
    /\ EnumRun("enumerate_pids", sess).tried = <<1, 2, 3>>
    /\ keys = <<>>

(***************************************************************************)
(* Claims about what a wrapper plugin writes, checked under SpecCollect.   *)
(***************************************************************************)
\* C32 as stated: the Package is append-only. No relative path is written
\* more than once, so no record already written is rewritten by a later
\* producer or a later key of the same producer.
C32_AppendOnly ==
    \A i, j \in DOMAIN records : i # j => records[i].path # records[j].path

ImportingModules == SelectSeq(pkgModules, LAMBDA m : m.ok)

\* this step is the failing import of a plugin module
PluginImportFails ==
    /\ dpc = "modules"
    /\ mi' = mi + 1
    /\ Len(warnings') = Len(warnings) + 1
    /\ warnings'[Len(warnings')].kind = "does not import"

\* C33: a module that fails to import does not abort discovery. The
\* producers discovered for a scope are those of the modules that import, in
\* the order they would have were the broken modules absent; the failing
\* import of a plugin module leaves what is discovered, selected and skipped
\* as it is and the loop goes on with the module after it, which is handled
\* as it would be had the broken module not been there.
C33_BrokenModuleSkipped ==
    [][/\ rpc' = "loop" => emitters' = CollectEmitters(ImportingModules)
       /\ PluginImportFails =>
            /\ dpc' = "modules"
            /\ modules' = modules
            /\ discovered' = discovered /\ classes' = classes
            /\ loaded' = loaded /\ skipped' = skipped
       /\ (dpc = "modules" /\ mi < Len(modules)) =>
            \A c \in ClassesOf(modules[mi + 1]) :
               (discovered' = Append(discovered, c.name) /\ classes' = Append(classes, c)) =>
                  LET outcome == SelectionOutcome(c, opts) IN
                  /\ outcome = "selected" => loaded' = Append(loaded, c) /\ skipped' = skipped
                  /\ outcome # "selected" =>
                        skipped' = Append(skipped, <<c.name, outcome>>) /\ loaded' = loaded]_vars

\* the first module of the scope does not import and the emitter of the
\* second is discovered
C33_Witness ==
    /\ rpc = "loop"
    /\ Len(pkgModules) = 2
    /\ ~pkgModules[1].ok /\ pkgModules[2].ok
    /\ emitters = pkgModules[2].vars
    /\ emitters # <<>>

\* C34 as stated: every producer module that fails to import during the
\* discovery of a scope is reported by a warning.
C34_BrokenModuleWarned ==
    rpc = "loop" =>
        \A i \in DOMAIN pkgModules :
            ~pkgModules[i].ok => \E w \in Range(warnings) : w.name = pkgModules[i].name

(***************************************************************************)
(* Claims about the order of the phases and about what a run that returns  *)
(* True leaves behind, checked under SpecRun.                              *)
(***************************************************************************)
\* the place of a position of execute in the order of the phases
PhaseRank(pc) ==
    CASE pc = "validate" -> 1
      [] pc = "archive" -> 2
      [] pc = "drgn" -> 3
      [] pc = "discover" -> 4
      [] pc \in PluginPhases -> 5
      [] pc = "finalize" -> 6
      [] OTHER -> 7

\* every selected plugin has been started, and the loop is through with it
AllPluginsDone ==
    /\ pidx = Len(loaded)
    /\ \A i \in DOMAIN loaded :
          \E h \in DOMAIN hooks : hooks[h] = HookCall(loaded[i].name, "__init__")

\* this step is _finalize returning True: it has removed the working directory
FinalizeReturnsTrue == xpc = "finalize" /\ term'.how = "return" /\ term'.value = TRUE

\* the order of the phases up to finalize: a phase starts from the one
\* before it only, and _finalize starts when the loop is through with every
\* selected plugin
C35_PhasesUpToFinalize ==
    /\ [][xpc' # "terminated" =>
             (PhaseRank(xpc') = PhaseRank(xpc) \/ PhaseRank(xpc') = PhaseRank(xpc) + 1)]_vars
    /\ [](xpc = "finalize" => AllPluginsDone)

\* C35 as stated: the phases start in the fixed order validate inputs, open
\* Package, open session, discover plugins, run plugins, finalize, and a
\* phase starts from the one before it only; _finalize starts when the loop
\* is through with every selected plugin; and when _finalize removes the
\* working directory on its way to returning True, the final artifact has
\* been relocated out of it.
C35_PhaseOrder ==
    /\ [][xpc' # "terminated" =>
             (PhaseRank(xpc') = PhaseRank(xpc) \/ PhaseRank(xpc') = PhaseRank(xpc) + 1)]_vars
    /\ [](xpc = "finalize" => AllPluginsDone)
    /\ [][FinalizeReturnsTrue => (package' # NoPackage /\ package'.at = "sys_tmp")]_vars

\* C40 as stated: whenever execute ends by returning True, a final artifact,
\* the packaged archive or the preserved directory, exists outside the
\* working directory.
C40_ArtifactOnSuccess ==
    (term.how = "return" /\ term.value = TRUE) =>
        (package # NoPackage /\ package.at = "sys_tmp")

(***************************************************************************)
(* Claims about the two lists of plugins, checked under SpecRun.           *)
(***************************************************************************)
SelectedNames == Range(LoadedNames)

SkippedNames == {skipped[i][1] : i \in DOMAIN skipped}

\* C37 as stated: after discovery every discovered plugin is in exactly one
\* of the two lists, the plugins selected to run and the plugins recorded as
\* skipped, and no plugin is recorded as skipped twice.
C37_ExactlyOneList ==
    dpc = "done" =>
        /\ \A n \in Range(discovered) : (n \in SelectedNames) # (n \in SkippedNames)
        /\ \A i, j \in DOMAIN skipped : i # j => skipped[i][1] # skipped[j][1]

\* C37 amended: after discovery every discovered plugin is in at least one
\* of the two lists, and no plugin is recorded as skipped twice; a plugin is
\* in both lists only when it was selected and its check_enabled has then
\* found it inactive, which adds it to the skipped plugins with the reason
\* 'inactive' and leaves it among the selected ones.
C37_OneListUnlessInactive ==
    dpc = "done" =>
        /\ \A n \in Range(discovered) :
              /\ n \in SelectedNames \/ n \in SkippedNames
              /\ (n \in SelectedNames /\ n \in SkippedNames) =>
                    /\ HookCalled(n, "check_enabled")
                    /\ \A i \in DOMAIN skipped :
                          skipped[i][1] = n => skipped[i][2] = "inactive"
              /\ (n \in SkippedNames /\ n \notin SelectedNames) =>
                    \A i \in DOMAIN skipped :
                          skipped[i][1] = n => skipped[i][2] # "inactive"
        /\ SelectedNames \cup SkippedNames \subseteq Range(discovered)
        /\ \A i, j \in DOMAIN skipped : i # j => skipped[i][1] # skipped[j][1]

\* a selected plugin was found inactive and is in both lists; another, not
\* enabled by default, was skipped at discovery
C37_Witness ==
    /\ dpc = "done"
    /\ xpc = "plugins"
    /\ \E n \in SelectedNames :
          /\ \E i \in DOMAIN skipped : skipped[i] = <<n, "inactive">>
    /\ \E i \in DOMAIN skipped : skipped[i][2] = "optional" /\ skipped[i][1] \notin SelectedNames

(***************************************************************************)
(* Claims about enumerate_cpus, checked under SpecEnum.                    *)
(***************************************************************************)
\* the cpu ids of the key-sets yielded
YieldedCpus == [i \in DOMAIN keys |-> keys[i]["cpu"]]

\* C38 as stated: whatever the session does, an iteration of the online-cpu
\* mask that raises part-way included, enumerate_cpus yields each cpu id at
\* most once.
C38_CpusAtMostOnce ==
    rpc = "yielded_cpus" =>
        \A i, j \in DOMAIN keys : i # j => YieldedCpus[i] # YieldedCpus[j]

(***************************************************************************)
(* Claims about the list that list_emitters returns, checked under         *)
(* SpecScope.                                                              *)
(***************************************************************************)
\* C39 as stated: the list returned by the discovery of a scope holds each
\* annotated producer function once, also when the function of one module
\* is bound as a top-level name in another module of the scope.
C39_EachFunctionOnce ==
    rpc = "loop" =>
        \A i, j \in DOMAIN emitters : i # j => emitters[i].func # emitters[j].func

====
